---- MODULE Spec2Model ----
(***************************************************************************)
(* Model of the doctor daemon (Kava-Labs/doctor).                          *)
(*                                                                         *)
(*  - the autoheal state machine of NodeClient.WatchSyncStatus (node.go):  *)
(*    rule R1 (offline -> restart), rule R3 (out of sync -> standby) and   *)
(*    rule R2 (frozen -> restart), one action per kind of ticker event;    *)
(*  - the healing goroutine heal.StandbyNodeUntilCaughtUp (heal/heal.go),  *)
(*    one action per blocking call;                                        *)
(*  - the metric store Endpoint (endpoint.go): AddSample and the synthetic *)
(*    metric CalculateNodeHashRatePerSecond.                               *)
(*                                                                         *)
(* Time is counted in whole seconds.  A time.Time that may be nil in the   *)
(* source is NoTime when unset.                                            *)
(***************************************************************************)
EXTENDS Integers, Sequences, FiniteSets, TLC

\* ------------------------------------------------------------------ bounds

\* last second of wall-clock time the model explores
MaxTime == 5
\* longest wait, in seconds, between the end of one tick's handling and the next tick
MaxTickGap == 1
\* longest duration, in seconds, of one GetNodeState or RestartBlockchainService call
MaxCallSeconds == 1
\* highest block height the node reports
MaxHeight == 1
\* largest number of seconds behind live a status response shows
MaxBehind == 2
\* goroutine slots available to healing tasks
NumHealers == 2
\* AddSample calls made on the metric store
MaxAdds == 3
\* goroutines the watcher starts to emit samples, in one run of the dispatch model
MaxEmits == 2
\* Collect calls that fail while one sample is handled (or all of them fail)
MaxCollectErrors == 1
\* Collect calls made on the collectors in one run
MaxCollects == 2
\* fc.fileRotationInterval, in seconds
RotationSeconds == 2
\* last instant, in half seconds, of the clocks a single status check reads
MaxHalfSeconds == 4
\* goroutines that call FileCollector.Collect
NumCallers == 2

\* ------------------------------------------------------------------ values

NoTime == 0 - 1

Healers == 1..NumHealers

\* autoscaling.LifecycleState* values DescribeAutoScalingInstances may report
LifecycleStates == {"InService", "Standby", "Pending"}

\* NodeClientConfig: the values the watcher reads
ConfigSet ==
    [ Autoheal : BOOLEAN,
      AutohealSyncLatencyToleranceSeconds : {1},
      AutohealSyncToLiveToleranceSeconds : {0},
      AutohealRestartDelaySeconds : {2},
      AutohealInitialAllowedDelaySeconds : {0, 4},
      NoNewBlocksRestartThresholdSeconds : {1},
      DowntimeRestartThresholdSeconds : {1} ]

\* endpoint.go:10-11
DefaultMetricSamplesToKeepPerNode == 10000

DefaultMetricSamplesForSyntheticMetricCalculation == 60

\* the keys of Endpoint.PerNodeMetrics: a node id and the endpoint URL
StoreKeys == {"node", "url"}

\* EndpointConfig values handed to NewEndpoint (0: not set)
EndpointConfigs ==
    { [MetricSamplesToKeepPerNode |-> 0, MetricSamplesForSyntheticMetricCalculation |-> 2],
      [MetricSamplesToKeepPerNode |-> 1, MetricSamplesForSyntheticMetricCalculation |-> 0],
      [MetricSamplesToKeepPerNode |-> 2, MetricSamplesForSyntheticMetricCalculation |-> 2] }

\* block heights of the sync samples added to the store
SampleHeights == {0, 1, 3}

\* seconds between two samples added to the store
SampleGaps == {0, 1}

\* a nil pointer of NodeMetrics is the empty tuple, a set one the tuple of its target
NilMetric == << >>

\* ------------------------------------------------------------------ state

VARIABLES
    config,                          \* nc.config
    clock,                           \* wall-clock second at which the watcher last finished a tick
    outOfSyncAutohealingInProgress,  \* node.go:68
    lastRestartedByAutohealingAt,    \* node.go:69, NoTime when nil
    lastNewBlockObservedAt,          \* node.go:70
    lastSynchedBlockNumber,          \* node.go:71
    currentDowntimeStartedAt,        \* node.go:72, NoTime when nil
    earliestAllowedRestartTime,      \* node.go:74
    healers,                         \* the goroutines started at node.go:238, by slot
    initFailed,                      \* heal.initErrorMessage != nil
    envGood,                         \* from now on status polls show a caught-up node and autoscaling calls succeed
    enterStandbyAttempts,            \* history: EnterStandby calls since the flag was last set
    ev,                              \* history: what the last step did
    PerNodeMetrics,                  \* Endpoint.PerNodeMetrics: key -> sequence of NodeMetrics
    MetricSamplesToKeepPerNode,      \* Endpoint.MetricSamplesToKeepPerNode
    MetricSamplesForSyntheticMetricCalculation,  \* Endpoint.MetricSamplesForSyntheticMetricCalculation
    sampleClock,                     \* SampledAt of the sample added last
    addedSamples,                    \* history: every sample handed to AddSample, by key, in call order
    lastCalc,                        \* the key and the result of the last synthetic-metric call
    lastProbe,                       \* history: what the last status check observed
    channelCapacity,                 \* capacity of logMessages and of the metric channels
    logMessages,                     \* number of messages buffered in the logMessages channel
    syncStatusMetrics,               \* samples buffered in the syncStatusMetrics channel
    uptimeMetrics,                   \* samples buffered in the uptimeMetrics channel
    emitters,                        \* the goroutines started at node.go:101 and 199, in start order
    directSends,                     \* sends on logMessages the watcher loop still has to make in this tick
    metricCollectors,                \* CLI.metricCollectors
    collectCalls,                    \* history: the Collect calls made for the last sample handled, and how many failed
    cancelled,                       \* ctx of WatchSyncStatus is cancelled
    watcherReturned,                 \* WatchSyncStatus has returned
    currentFile,                     \* fc.currentFile: the names of the metrics written to it
    currentFileOpenedAt,             \* fc.currentFileOpenedAt
    putMetricData,                   \* the metrics the CloudWatch API was invoked with
    lastCollect,                     \* history: the last Collect call of a collector and what it did
    lastSample,                      \* the metric.SyncStatusMetrics the last status check built, with the clocks it read
    openFileHandles,                 \* files the FileCollector opened and did not close
    fileLock,                        \* fc.fileLock: the caller that holds it, NoCaller when unlocked
    collecting,                      \* the Collect calls in progress on the FileCollector, by caller
    watcherAt,                       \* where the watcher loop stands inside a tick, and the status response it handles
    taskCalls                        \* history: the calls each running healing task has made so far

watchVars == << clock, outOfSyncAutohealingInProgress, lastRestartedByAutohealingAt,
                lastNewBlockObservedAt, lastSynchedBlockNumber, currentDowntimeStartedAt,
                earliestAllowedRestartTime >>

restartVars == << lastRestartedByAutohealingAt, lastNewBlockObservedAt, lastSynchedBlockNumber,
                  currentDowntimeStartedAt, earliestAllowedRestartTime >>

storeVars == << PerNodeMetrics, MetricSamplesToKeepPerNode,
               MetricSamplesForSyntheticMetricCalculation, sampleClock, addedSamples, lastCalc >>

\* what the models of single operations keep: the arithmetic of one status check,
\* the file handles and the lock of the FileCollector
detailVars == << lastSample, openFileHandles, fileLock, collecting, watcherAt, taskCalls >>

\* the watcher, the healing tasks, the channels, the dispatcher and the sinks
runVars == << config, clock, outOfSyncAutohealingInProgress, lastRestartedByAutohealingAt,
              lastNewBlockObservedAt, lastSynchedBlockNumber, currentDowntimeStartedAt,
              earliestAllowedRestartTime, healers, initFailed, envGood, enterStandbyAttempts, ev,
              lastProbe, channelCapacity, logMessages, syncStatusMetrics, uptimeMetrics,
              emitters, directSends, metricCollectors, collectCalls, cancelled,
              watcherReturned, currentFile, currentFileOpenedAt, putMetricData, lastCollect >>

healVars == << config, clock, outOfSyncAutohealingInProgress, lastRestartedByAutohealingAt,
               lastNewBlockObservedAt, lastSynchedBlockNumber, currentDowntimeStartedAt,
               earliestAllowedRestartTime, healers, initFailed, envGood, enterStandbyAttempts, ev,
               lastProbe, channelCapacity, logMessages, syncStatusMetrics, uptimeMetrics,
               emitters, directSends, metricCollectors, collectCalls, cancelled,
               watcherReturned, currentFile, currentFileOpenedAt, putMetricData, lastCollect,
               detailVars >>

vars == << config, clock, outOfSyncAutohealingInProgress, lastRestartedByAutohealingAt,
           lastNewBlockObservedAt, lastSynchedBlockNumber, currentDowntimeStartedAt,
           earliestAllowedRestartTime, healers, initFailed, envGood, enterStandbyAttempts, ev,
           PerNodeMetrics, MetricSamplesToKeepPerNode, MetricSamplesForSyntheticMetricCalculation,
           sampleClock, addedSamples, lastCalc, lastProbe, channelCapacity, logMessages,
           syncStatusMetrics, uptimeMetrics, emitters, directSends, metricCollectors,
           collectCalls, cancelled, watcherReturned, currentFile, currentFileOpenedAt,
           putMetricData, lastCollect, lastSample, openFileHandles, fileLock, collecting,
           watcherAt, taskCalls >>

\* the collectors of collect/file.go and collect/cloudwatch.go
sinkVars == << currentFile, currentFileOpenedAt, putMetricData, lastCollect >>

\* the channels between the watcher and the dispatcher, the dispatcher's sinks, and
\* the context of the watcher
pipeVars == << channelCapacity, logMessages, syncStatusMetrics, uptimeMetrics, emitters,
               directSends, metricCollectors, collectCalls, cancelled, watcherReturned,
               currentFile, currentFileOpenedAt, putMetricData, lastCollect, detailVars >>

IdleHealer == [pc |-> "idle", placedOnStandby |-> FALSE]

NoEvent ==
    [ op |-> "init", flagBefore |-> FALSE, outOfSync |-> FALSE, spawned |-> FALSE,
      due |-> FALSE, restart |-> "none", restartOk |-> FALSE, restartAt |-> NoTime,
      call |-> "none", restartCalls |-> 0, lifecycle |-> "none" ]

\* no status check made yet
NoProbe ==
    [ SampledAt |-> NoTime, EndedAt |-> NoTime, height |-> 0, newBlock |-> FALSE,
      onlyFailures |-> TRUE, restartedBefore |-> FALSE ]

\* no Collect call made yet
NoCollect ==
    [ collector |-> "none", metric |-> "", CollectToFile |-> FALSE,
      CollectToCloudwatch |-> FALSE, err |-> "", written |-> 0, apiCalls |-> 0,
      providerErr |-> "", rotated |-> FALSE ]

NoCollectCalls == [calls |-> << >>, errors |-> 0]

Callers == 1..NumCallers

NoCaller == 0

\* the watcher loop waits in its select
AtSelect == [pc |-> "select", adv |-> 0, lat |-> 0, height |-> 0, behind |-> 0]

\* a healing task that has made no call
NoCalls ==
    [ entered |-> FALSE, enterFailed |-> FALSE, polled |-> FALSE, caughtUp |-> FALSE,
      exited |-> FALSE ]

\* a caller that is not inside Collect
IdleCall == [pc |-> "idle", metric |-> "", err |-> ""]

\* no metric.SyncStatusMetrics built yet
NoSample ==
    [ SampledAt |-> NoTime, EndedAt |-> NoTime, now |-> NoTime, LatestBlockTime |-> NoTime,
      SecondsBehindLive |-> 0, SampleLatencyMilliseconds |-> 0 ]

ActiveHealers == {h \in Healers : healers[h].pc # "idle"}

\* ------------------------------------------------------------------ Init

NoCalc == [op |-> "none", key |-> "", err |-> "", value |-> [kind |-> "num", num |-> 0, den |-> 1]]

\* endpoint.go:48-67: NewEndpoint
NewEndpoint(endpointConfig) ==
    /\ PerNodeMetrics = << >>
    /\ MetricSamplesToKeepPerNode =
           IF endpointConfig.MetricSamplesToKeepPerNode > 0
           THEN endpointConfig.MetricSamplesToKeepPerNode
           ELSE DefaultMetricSamplesToKeepPerNode
    /\ MetricSamplesForSyntheticMetricCalculation =
           IF endpointConfig.MetricSamplesForSyntheticMetricCalculation > 0
           THEN endpointConfig.MetricSamplesForSyntheticMetricCalculation
           ELSE DefaultMetricSamplesForSyntheticMetricCalculation
    /\ sampleClock = 0
    /\ addedSamples = [k \in StoreKeys |-> << >>]
    /\ lastCalc = NoCalc

\* the state on entry to the for loop of WatchSyncStatus, the process having started at second 0
WatchInit(configs) ==
    /\ config \in configs
    /\ clock = 0
    /\ outOfSyncAutohealingInProgress = FALSE
    /\ lastRestartedByAutohealingAt = NoTime
    /\ lastNewBlockObservedAt = 0
    /\ lastSynchedBlockNumber = 0
    /\ currentDowntimeStartedAt = NoTime
    /\ earliestAllowedRestartTime = 0 + config.AutohealInitialAllowedDelaySeconds
    /\ healers = [h \in Healers |-> IdleHealer]
    /\ initFailed \in BOOLEAN
    /\ envGood = FALSE
    /\ enterStandbyAttempts = 0
    /\ ev = NoEvent
    /\ lastProbe = NoProbe
    /\ logMessages = 0
    /\ syncStatusMetrics = << >>
    /\ uptimeMetrics = << >>
    /\ emitters = << >>
    /\ directSends = 0
    /\ collectCalls = NoCollectCalls
    /\ cancelled = FALSE
    /\ watcherReturned = FALSE
    /\ currentFile = << >>
    /\ currentFileOpenedAt = 0
    /\ putMetricData = << >>
    /\ lastCollect = NoCollect
    /\ lastSample = NoSample
    /\ openFileHandles = 1
    /\ fileLock = NoCaller
    /\ collecting = [c \in Callers |-> IdleCall]
    /\ watcherAt = AtSelect
    /\ taskCalls = [h \in Healers |-> NoCalls]

\* a run that leaves the channels and the sinks out of the picture
NoPipe ==
    /\ channelCapacity = 0
    /\ metricCollectors = << >>

Init ==
    /\ WatchInit(ConfigSet)
    /\ NoPipe
    /\ NewEndpoint([MetricSamplesToKeepPerNode |-> 0, MetricSamplesForSyntheticMetricCalculation |-> 0])

\* ------------------------------------------------------------------ watcher: decisions

\* node.go:121-122 and 277-278: a restart happened before and the measured
\* duration is still shorter than AutohealRestartDelaySeconds
RestartDelayPending(duration) ==
    /\ lastRestartedByAutohealingAt # NoTime
    /\ duration < config.AutohealRestartDelaySeconds

\* node.go:121-175: whether the offline rule calls RestartBlockchainService
OfflineRestartDue(downtimeDuration) ==
    IF lastRestartedByAutohealingAt # NoTime
    THEN ~RestartDelayPending(downtimeDuration)
    ELSE downtimeDuration > config.DowntimeRestartThresholdSeconds

\* node.go:266: still inside the initial buffer
InInitialBuffer(now) == now < earliestAllowedRestartTime

\* variant of FrozenRestartDue: a frozen duration equal to the threshold is enough
FrozenRestartDueAtThreshold(frozenDuration) ==
    /\ frozenDuration >= config.NoNewBlocksRestartThresholdSeconds
    /\ ~RestartDelayPending(frozenDuration)

\* node.go:274-310: whether the frozen rule calls RestartBlockchainService
FrozenRestartDue(frozenDuration) ==
    /\ frozenDuration > config.NoNewBlocksRestartThresholdSeconds
    /\ ~RestartDelayPending(frozenDuration)

\* variant of ContinuesAfterRestart: only a restart that succeeded ends the tick
ContinuesAfterRestartOk(rok) == rok

\* node.go:131-148 and 285-303: after the call of RestartBlockchainService in the
\* branch of a node restarted before, the tick ends with continue whether the call
\* failed (rok FALSE) or not
ContinuesAfterRestart(rok) == TRUE

\* node.go:115-175: the number of calls of RestartBlockchainService the offline rule
\* makes in one tick, the call returning nil iff rok
OfflineRestartCalls(downtimeDuration, rok) ==
    LET restartedBefore == lastRestartedByAutohealingAt # NoTime
        first == restartedBefore /\ ~RestartDelayPending(downtimeDuration)
        second == /\ ~restartedBefore \/ (first /\ ~ContinuesAfterRestart(rok))
                  /\ downtimeDuration > config.DowntimeRestartThresholdSeconds
    IN  (IF first THEN 1 ELSE 0) + (IF second THEN 1 ELSE 0)

\* node.go:271-330: the number of calls of RestartBlockchainService the frozen rule
\* makes in one tick past the initial buffer, the call returning nil iff rok
FrozenRestartCalls(frozenDuration, rok) ==
    LET restartedBefore == lastRestartedByAutohealingAt # NoTime
        above == frozenDuration > config.NoNewBlocksRestartThresholdSeconds
        first == above /\ restartedBefore /\ ~RestartDelayPending(frozenDuration)
        second == /\ above
                  /\ ~restartedBefore \/ (first /\ ~ContinuesAfterRestart(rok))
    IN  (IF first THEN 1 ELSE 0) + (IF second THEN 1 ELSE 0)

\* variant of RestartRecorded: a call that failed is recorded as a restart too
RestartRecordedOnError(called, rok) == called

\* node.go:131-145 and 285-300: the state is updated only after a call that returned nil
RestartRecorded(called, rok) == called /\ rok

\* node.go:218: the sample is further behind live than tolerated
IsOutOfSync(secondsBehindLive) ==
    secondsBehindLive > config.AutohealSyncLatencyToleranceSeconds

\* variant of HealingInProgress: the flag is not looked at
HealingInProgressIgnored == FALSE

\* node.go:224: a healer is already working on the node
HealingInProgress == outOfSyncAutohealingInProgress

\* variant of AutohealEnabled: the rules run whatever the configuration says
AutohealAlways == TRUE

\* node.go:114, 214 and 263: the autoheal rules are switched on
AutohealEnabled == config.Autoheal

\* variant of FrozenRuleReached: the tick ends where node.go:228 jumps
FrozenRuleSkippedWhenHealing(alreadyHealing) == ~alreadyHealing

\* node.go:228 and 260: after the out-of-sync rule, also when it found a healer
\* at work (goto AutohealFrozenNodeBegin), the tick goes on to the frozen rule
FrozenRuleReached(alreadyHealing) == TRUE

\* node.go:108-112: the start of the downtime window after a failed sample
DowntimeStart(statusCheckStartedAt) ==
    IF currentDowntimeStartedAt = NoTime THEN statusCheckStartedAt ELSE currentDowntimeStartedAt

\* variant of DowntimeStartAfterRestart: the downtime clock is not reset
DowntimeStartKeptAfterRestart(downtimeStartedAt) == downtimeStartedAt

\* node.go:142-143 and 168-169: "reset downtime clock" after a restart that succeeded
DowntimeStartAfterRestart(downtimeStartedAt) == NoTime

\* node.go:185-211: the value of currentDowntimeStartedAt after a successful sample
DowntimeStartAfterSuccess == currentDowntimeStartedAt

\* the slot the goroutine of node.go:238 runs in
FreeSlot == CHOOSE h \in Healers : healers[h].pc = "idle" /\ \A g \in Healers : healers[g].pc = "idle" => h <= g

\* ------------------------------------------------------------------ watcher: ticks

\* what RestartBlockchainService may return (TRUE: nil), and the seconds it may
\* take, on a tick that calls it; a tick that does not call it has neither
RestartOutcomes(called) == IF called THEN BOOLEAN ELSE {TRUE}

RestartSeconds(called) == IF called THEN 0..MaxCallSeconds ELSE {0}

\* node.go:80-183: a tick whose GetNodeState call fails (rule R1).
\*   adv   seconds between the end of the previous tick's handling and this tick
\*   lat   seconds GetNodeState takes
\* Within it: rok, RestartBlockchainService returns nil; rdur, the seconds it takes.
WatchTickOffline(adv, lat) ==
    LET statusCheckStartedAt == clock + adv
        statusCheckEndedAt == statusCheckStartedAt + lat
        downtimeStartedAt == DowntimeStart(statusCheckStartedAt)
        downtimeDuration == statusCheckStartedAt - downtimeStartedAt
        attempt == AutohealEnabled /\ OfflineRestartDue(downtimeDuration)
    IN  \E rok \in RestartOutcomes(attempt), rdur \in RestartSeconds(attempt) :
        LET restarted == RestartRecorded(attempt, rok)
            now == statusCheckEndedAt + rdur
        IN
        /\ now <= MaxTime
        /\ clock' = now
        /\ currentDowntimeStartedAt' = IF restarted
                                       THEN DowntimeStartAfterRestart(downtimeStartedAt)
                                       ELSE downtimeStartedAt
        /\ lastRestartedByAutohealingAt' = IF restarted THEN now ELSE lastRestartedByAutohealingAt
        /\ ev' = [NoEvent EXCEPT !.op = "offline",
                                 !.flagBefore = outOfSyncAutohealingInProgress,
                                 !.due = OfflineRestartDue(downtimeDuration),
                                 !.restart = IF attempt THEN "R1" ELSE "none",
                                 !.restartOk = attempt /\ rok,
                                 !.restartAt = IF attempt THEN statusCheckEndedAt ELSE NoTime,
                                 !.restartCalls = IF AutohealEnabled
                                                  THEN OfflineRestartCalls(downtimeDuration, rok)
                                                  ELSE 0]
        /\ UNCHANGED << storeVars, config, outOfSyncAutohealingInProgress, lastNewBlockObservedAt,
                        lastSynchedBlockNumber, earliestAllowedRestartTime, healers,
                        initFailed, envGood, enterStandbyAttempts >>

\* variant of NewBlockObservedAt: a new block does not move the frozen clock
NewBlockObservedAtKept(currentBlockNumber, statusCheckEndedAt) == lastNewBlockObservedAt

\* node.go:205-211: a height above lastSynchedBlockNumber moves the frozen clock to
\* the end of the status check
NewBlockObservedAt(currentBlockNumber, statusCheckEndedAt) ==
    IF currentBlockNumber > lastSynchedBlockNumber
    THEN statusCheckEndedAt ELSE lastNewBlockObservedAt

\* node.go:80-93 and 185-336: a tick whose GetNodeState call succeeds (rules R3 and R2).
\*   currentBlockNumber, secondsBehindLive   what the status response shows
WatchTickOnline(adv, lat, currentBlockNumber, secondsBehindLive) ==
    LET statusCheckStartedAt == clock + adv
        statusCheckEndedAt == statusCheckStartedAt + lat
        \* node.go:205-211
        newBlockObservedAt == NewBlockObservedAt(currentBlockNumber, statusCheckEndedAt)
        \* node.go:214-258
        outOfSync == AutohealEnabled /\ IsOutOfSync(secondsBehindLive)
        spawn == outOfSync /\ ~HealingInProgress
        \* node.go:260-332
        reached == FrozenRuleReached(outOfSync /\ ~spawn)
        frozenDuration == statusCheckEndedAt - newBlockObservedAt
        buffered == AutohealEnabled /\ reached /\ InInitialBuffer(statusCheckEndedAt)
        due == ~InInitialBuffer(statusCheckEndedAt) /\ FrozenRestartDue(frozenDuration)
        attempt == AutohealEnabled /\ reached /\ due
        delayed == /\ AutohealEnabled /\ reached /\ ~buffered
                   /\ frozenDuration > config.NoNewBlocksRestartThresholdSeconds
                   /\ RestartDelayPending(frozenDuration)
        \* node.go:335 is reached only when no continue statement ran
        reachedEnd == reached /\ ~buffered /\ ~attempt /\ ~delayed
    IN  \E rok \in RestartOutcomes(attempt), rdur \in RestartSeconds(attempt) :
        LET restarted == RestartRecorded(attempt, rok)
            now == statusCheckEndedAt + rdur
        IN
        /\ now <= MaxTime
        /\ spawn => \E h \in Healers : healers[h].pc = "idle"
        /\ clock' = now
        /\ currentDowntimeStartedAt' = DowntimeStartAfterSuccess
        /\ outOfSyncAutohealingInProgress' = (spawn \/ outOfSyncAutohealingInProgress)
        /\ healers' = IF spawn
                      THEN [healers EXCEPT ![FreeSlot] = [IdleHealer EXCEPT !.pc = "start"]]
                      ELSE healers
        /\ enterStandbyAttempts' = IF spawn THEN 0 ELSE enterStandbyAttempts
        /\ lastNewBlockObservedAt' = IF restarted THEN now ELSE newBlockObservedAt
        /\ lastRestartedByAutohealingAt' = IF restarted THEN now ELSE lastRestartedByAutohealingAt
        /\ lastSynchedBlockNumber' = IF reachedEnd THEN currentBlockNumber ELSE lastSynchedBlockNumber
        /\ ev' = [NoEvent EXCEPT !.op = "online",
                                 !.flagBefore = outOfSyncAutohealingInProgress,
                                 !.outOfSync = outOfSync,
                                 !.spawned = spawn,
                                 !.due = due,
                                 !.restart = IF attempt THEN "R2" ELSE "none",
                                 !.restartOk = attempt /\ rok,
                                 !.restartAt = IF attempt THEN statusCheckEndedAt ELSE NoTime,
                                 !.restartCalls = IF AutohealEnabled /\ reached /\ ~buffered
                                                  THEN FrozenRestartCalls(frozenDuration, rok)
                                                  ELSE 0]
        /\ UNCHANGED << storeVars, config, earliestAllowedRestartTime, initFailed, envGood >>

\* ------------------------------------------------------------------ healing task

HealEvent(call) == [NoEvent EXCEPT !.op = "heal", !.call = call,
                                   !.flagBefore = outOfSyncAutohealingInProgress]

\* variant of CaughtUp: the catch-up loop ends at the first poll that succeeds
CaughtUpAlways(secondsBehindLive) == TRUE

\* heal.go:134: the polled node is within AutohealSyncToLiveToleranceSeconds of live
CaughtUp(secondsBehindLive) ==
    secondsBehindLive <= config.AutohealSyncToLiveToleranceSeconds

\* variant of PlacedOnStandby: set whatever the lifecycle state is
PlacedOnStandbyAlways(lifecycleState) == TRUE

\* heal.go:87-116: placedOnStandby once the lifecycle state has been dealt with
\* (for an InService host: after EnterStandby returned no error)
PlacedOnStandby(lifecycleState) == lifecycleState \in {"InService", "Standby"}

\* variant of HealerUnavailable: the task goes on to the autoscaling calls
HealerUnavailableNever == FALSE

\* heal.go:59 with init (242-254): initErrorMessage != nil, NewAwsDoctor failed at load time
HealerUnavailable == initFailed

\* heal.go:59-91 and 109-116: the init check, the DescribeAutoScalingInstances call
\* and, for a host that is not InService, the way to the catch-up loop.
\*   res  "error", "count" (not exactly one record) or the lifecycle state of the one record
HealStart(h, res) ==
    /\ healers[h].pc = "start"
    /\ envGood /\ ~initFailed => res \in LifecycleStates
    /\ initFailed => res = "error"
    /\ healers' = [healers EXCEPT ![h] =
                     CASE HealerUnavailable \/ res \in {"error", "count"} -> [@ EXCEPT !.pc = "release"]
                       [] res = "InService" -> [@ EXCEPT !.pc = "enter"]
                       [] OTHER -> [@ EXCEPT !.pc = "poll", !.placedOnStandby = PlacedOnStandby(res)]]
    /\ ev' = [HealEvent(IF HealerUnavailable THEN "none" ELSE "Describe")
                 EXCEPT !.lifecycle = IF HealerUnavailable THEN "none" ELSE res]
    /\ UNCHANGED << storeVars, config, watchVars, initFailed, envGood, enterStandbyAttempts >>

\* heal.go:91-108: EnterStandby for a host that is InService
HealEnterStandby(h, ok) ==
    /\ healers[h].pc = "enter"
    /\ envGood => ok
    /\ healers' = [healers EXCEPT ![h] =
                     IF ok
                     THEN [@ EXCEPT !.pc = "poll", !.placedOnStandby = PlacedOnStandby("InService")]
                     ELSE [@ EXCEPT !.pc = "release"]]
    /\ enterStandbyAttempts' = enterStandbyAttempts + 1
    /\ ev' = HealEvent("EnterStandby")
    /\ UNCHANGED << storeVars, config, watchVars, initFailed, envGood >>

\* heal.go:119-142: one round of the catch-up loop: the GetNodeState poll and, when
\* the node has not caught up, the time.Sleep(1 * time.Minute) before the next round.
\*   ok  the call returned no error;  secondsBehindLive  what the response shows
HealPoll(h, ok, secondsBehindLive) ==
    /\ healers[h].pc = "poll"
    /\ envGood => (ok /\ CaughtUp(secondsBehindLive))
    /\ healers' = [healers EXCEPT ![h].pc =
                     IF ok /\ CaughtUp(secondsBehindLive)
                     THEN (IF healers[h].placedOnStandby THEN "describe" ELSE "release")
                     ELSE "poll"]
    /\ ev' = HealEvent("Status")
    /\ UNCHANGED << storeVars, config, watchVars, initFailed, envGood, enterStandbyAttempts >>

\* heal.go:147-162: GetNodeAutoscalingState in the exit loop
HealDescribe(h, res) ==
    /\ healers[h].pc = "describe"
    /\ envGood => res \in LifecycleStates
    /\ healers' = [healers EXCEPT ![h].pc =
                     CASE res \in {"error", "count"} -> "describe"
                       [] res = "InService" -> "release"
                       [] OTHER -> "exit"]
    /\ ev' = HealEvent("Describe")
    /\ UNCHANGED << storeVars, config, watchVars, initFailed, envGood, enterStandbyAttempts >>

\* variant of AfterExitStandby: exitedStandby is not set, the loop goes round again
AfterExitStandbyLoops(ok) == "describe"

\* heal.go:171-180: where the exit loop goes after ExitStandby returned
AfterExitStandby(ok) == IF ok THEN "release" ELSE "describe"

\* heal.go:164-180: ExitStandby
HealExitStandby(h, ok) ==
    /\ healers[h].pc = "exit"
    /\ envGood => ok
    /\ healers' = [healers EXCEPT ![h].pc = AfterExitStandby(ok)]
    /\ ev' = HealEvent("ExitStandby")
    /\ UNCHANGED << storeVars, config, watchVars, initFailed, envGood, enterStandbyAttempts >>

\* variant of FlagAfterRelease: the deferred function leaves the flag as it is
FlagKeptAfterRelease == outOfSyncAutohealingInProgress

\* node.go:243: outOfSyncAutohealingInProgress = false
FlagAfterRelease == FALSE

\* node.go:239-247: the deferred function of the goroutine clears the flag
HealRelease(h) ==
    /\ healers[h].pc = "release"
    /\ outOfSyncAutohealingInProgress' = FlagAfterRelease
    /\ healers' = [healers EXCEPT ![h] = IdleHealer]
    /\ ev' = HealEvent("none")
    /\ UNCHANGED << storeVars, config, clock, restartVars, initFailed, envGood, enterStandbyAttempts >>

\* the node and the autoscaling service become, and stay, healthy
Stabilize ==
    /\ ~envGood
    /\ envGood' = TRUE
    /\ ev' = [NoEvent EXCEPT !.op = "env"]
    /\ UNCHANGED << storeVars, config, watchVars, healers, initFailed, enterStandbyAttempts,
                    lastProbe, pipeVars >>

\* ------------------------------------------------------------------ float32 values

\* A float32 is an exact fraction in lowest terms with a positive denominator, or
\* one of the IEEE values a division by zero produces.  Rounding is not modelled.
Abs(n) == IF n < 0 THEN 0 - n ELSE n

RECURSIVE GCD(_, _)
GCD(a, b) == IF b = 0 THEN a ELSE GCD(b, a % b)

Fraction(n, d) ==
    LET g == GCD(Abs(n), Abs(d))
        sign == IF d < 0 THEN 0 - 1 ELSE 1
    IN  [kind |-> "num", num |-> (sign * n) \div g, den |-> (sign * d) \div g]

PosInf == [kind |-> "+Inf", num |-> 0, den |-> 1]

NegInf == [kind |-> "-Inf", num |-> 0, den |-> 1]

NaN == [kind |-> "NaN", num |-> 0, den |-> 1]

\* float32(n) / float32(d) for integers n and d
FloatQuotient(n, d) ==
    IF d # 0 THEN Fraction(n, d)
    ELSE IF n > 0 THEN PosInf
    ELSE IF n < 0 THEN NegInf
    ELSE NaN

\* x + y
FloatSum(x, y) ==
    CASE x.kind = "NaN" \/ y.kind = "NaN" -> NaN
      [] x.kind = "num" /\ y.kind = "num" -> Fraction(x.num * y.den + y.num * x.den, x.den * y.den)
      [] x.kind = "num" -> y
      [] y.kind = "num" -> x
      [] x.kind = y.kind -> x
      [] OTHER -> NaN

\* x / float32(n) for an integer n > 0
FloatOver(x, n) == IF x.kind = "num" THEN Fraction(x.num, x.den * n) ELSE x

\* ------------------------------------------------------------------ metric store

ErrNodeMetricsNotFound == "no metrics found for requested node"

ErrInsufficientMetricSamples == "insufficient metric samples"

SyncSample(height, at) ==
    [ SyncStatusMetrics |-> << [LatestBlockHeight |-> height, SampledAt |-> at] >>,
      UptimeMetric |-> NilMetric ]

UptimeSample(up, at) ==
    [ SyncStatusMetrics |-> NilMetric,
      UptimeMetric |-> << [Up |-> up, SampledAt |-> at] >> ]

\* the samples stored for a key; none for a key the map does not hold
Stored(nodeId) == IF nodeId \in DOMAIN PerNodeMetrics THEN PerNodeMetrics[nodeId] ELSE << >>

\* variant of AtCapacity: the comparison is > instead of ==
AtCapacityOffByOne(currentMetrics) == Len(currentMetrics) > MetricSamplesToKeepPerNode

\* endpoint.go:80: the sequence is at capacity
AtCapacity(currentMetrics) == Len(currentMetrics) = MetricSamplesToKeepPerNode

\* variant of PruneOldest: the newest element is cut off
PruneNewest(currentMetrics) == SubSeq(currentMetrics, 1, Len(currentMetrics) - 1)

\* endpoint.go:82: currentMetrics[1:]
PruneOldest(currentMetrics) == Tail(currentMetrics)

\* variant of AddSample: the sample is appended under every key of the map
AddSampleToAll(nodeId, newMetrics) ==
    [k \in DOMAIN PerNodeMetrics \cup {nodeId} |-> Append(Stored(k), newMetrics)]

\* endpoint.go:72-86: the map AddSample leaves behind
AddSample(nodeId, newMetrics) ==
    IF nodeId \notin DOMAIN PerNodeMetrics
    THEN (nodeId :> << newMetrics >>) @@ PerNodeMetrics
    ELSE LET currentMetrics == PerNodeMetrics[nodeId]
             pruned == IF AtCapacity(currentMetrics) THEN PruneOldest(currentMetrics) ELSE currentMetrics
         IN  [PerNodeMetrics EXCEPT ![nodeId] = Append(pruned, newMetrics)]

\* variant of reverseNodeMetrics: the input is returned in its own order
reverseNodeMetricsNot(input) == input

\* endpoint.go:119-130
reverseNodeMetrics(input) ==
    [j \in 1..Len(input) |-> input[Len(input) - j + 1]]

\* endpoint.go:146-152 and 202-208: the two predicates handed to takeUpToNMostRecentMetrics
Matches(predicate, metric) ==
    IF predicate = "sync" THEN metric.SyncStatusMetrics # NilMetric
    ELSE metric.UptimeMetric # NilMetric

\* endpoint.go:99-108: the loop of takeUpToNMostRecentMetrics from position i on
RECURSIVE TakeLoop(_, _, _, _, _)
TakeLoop(newestToOldestMetrics, i, take, predicate, takenMetrics) ==
    IF i > Len(newestToOldestMetrics) \/ Len(takenMetrics) = take
    THEN takenMetrics
    ELSE TakeLoop(newestToOldestMetrics, i + 1, take, predicate,
                  IF Matches(predicate, newestToOldestMetrics[i])
                  THEN Append(takenMetrics, newestToOldestMetrics[i])
                  ELSE takenMetrics)

\* endpoint.go:94-111
takeUpToNMostRecentMetrics(metrics, take, predicate) ==
    TakeLoop(reverseNodeMetrics(metrics), 1, take, predicate, << >>)

\* variant of TooFewSamples: a third sample is asked for
TooFewSamplesOffByOne(numSamples) == numSamples <= 2

\* endpoint.go:159: too few samples for a hash rate
TooFewSamples(numSamples) == numSamples <= 1

\* endpoint.go:171-182: the loop over the samples from position i on
RECURSIVE SumBlockRates(_, _, _, _, _)
SumBlockRates(samples, i, startingBlockHeight, startingBlockTime, sumBlockRates) ==
    IF i > Len(samples)
    THEN sumBlockRates
    ELSE LET sample == samples[i].SyncStatusMetrics[1]
             newBlocks == sample.LatestBlockHeight - startingBlockHeight
             secondsBetweenSamples == sample.SampledAt - startingBlockTime
             blockRate == FloatQuotient(newBlocks, secondsBetweenSamples)
         IN  SumBlockRates(samples, i + 1, sample.LatestBlockHeight, sample.SampledAt,
                           FloatSum(sumBlockRates, blockRate))

\* endpoint.go:139-187, for an Endpoint whose map is perNodeMetrics
HashRatePerSecondOf(perNodeMetrics, nodeId) ==
    IF nodeId \notin DOMAIN perNodeMetrics
    THEN [err |-> ErrNodeMetricsNotFound, value |-> Fraction(0, 1)]
    ELSE LET samples == takeUpToNMostRecentMetrics(perNodeMetrics[nodeId],
                            MetricSamplesForSyntheticMetricCalculation, "sync")
             numSamples == Len(samples)
         IN  IF TooFewSamples(numSamples)
             THEN [err |-> ErrInsufficientMetricSamples, value |-> Fraction(0, 1)]
             ELSE LET first == samples[1].SyncStatusMetrics[1]
                      sumBlockRates == SumBlockRates(Tail(samples), 1, first.LatestBlockHeight,
                                                     first.SampledAt, Fraction(0, 1))
                  IN  [err |-> "", value |-> FloatOver(sumBlockRates, numSamples - 1)]

\* endpoint.go:139-187
CalculateNodeHashRatePerSecond(nodeId) == HashRatePerSecondOf(PerNodeMetrics, nodeId)

\* variant of NoUptimeSamples: an empty selection is let through
NoUptimeSamplesUnchecked(numSamples) == numSamples < 0

\* endpoint.go:215: no uptime sample to calculate with
NoUptimeSamples(numSamples) == numSamples = 0

\* variant of IsUp: a sample counts when the endpoint was down
IsDown(sample) == ~sample.UptimeMetric[1].Up

\* endpoint.go:224: sample.UptimeMetric.Up
IsUp(sample) == sample.UptimeMetric[1].Up

\* endpoint.go:221-227: availabilityPeriods after the loop over the samples from position i on
RECURSIVE CountAvailabilityPeriods(_, _, _)
CountAvailabilityPeriods(samples, i, availabilityPeriods) ==
    IF i > Len(samples)
    THEN availabilityPeriods
    ELSE CountAvailabilityPeriods(samples, i + 1,
             IF IsUp(samples[i]) THEN availabilityPeriods + 1 ELSE availabilityPeriods)

\* endpoint.go:195-230, for an Endpoint whose map is perNodeMetrics
UptimeOf(perNodeMetrics, endpointURL) ==
    IF endpointURL \notin DOMAIN perNodeMetrics
    THEN [err |-> ErrNodeMetricsNotFound, value |-> Fraction(0, 1)]
    ELSE LET samples == takeUpToNMostRecentMetrics(perNodeMetrics[endpointURL],
                            MetricSamplesForSyntheticMetricCalculation, "uptime")
             numSamples == Len(samples)
         IN  IF NoUptimeSamples(numSamples)
             THEN [err |-> ErrInsufficientMetricSamples, value |-> Fraction(0, 1)]
             ELSE [err |-> "",
                   value |-> FloatQuotient(CountAvailabilityPeriods(samples, 1, 0), numSamples)]

\* endpoint.go:195-230
CalculateUptime(endpointURL) == UptimeOf(PerNodeMetrics, endpointURL)

\* variant of StoreAfterCalculation: the stored samples are reversed in place
StoreReversedByCalculation(perNodeMetrics, nodeId) ==
    IF nodeId \in DOMAIN perNodeMetrics
    THEN [perNodeMetrics EXCEPT ![nodeId] = reverseNodeMetrics(@)]
    ELSE perNodeMetrics

\* endpoint.go:94-130, 139-187 and 195-230: what a synthetic-metric calculation
\* leaves in the store.  reverseNodeMetrics fills a slice of its own,
\* takeUpToNMostRecentMetrics appends to a slice of its own, and the
\* `*samples = (*samples)[1:]` of the hash rate shortens that slice only.
StoreAfterCalculation(perNodeMetrics, nodeId) == perNodeMetrics

\* The samples a caller may hand to AddSample at second at: under the endpoint URL
\* uptime samples (collector.go:275), under a node id sync samples (collector.go:171)
\* and, as the tests do, uptime samples.
NewSamples(nodeId, at) ==
    {UptimeSample(u, at) : u \in BOOLEAN}
        \cup (IF nodeId = "url" THEN {} ELSE {SyncSample(h, at) : h \in SampleHeights})

AddsMade == Len(addedSamples["node"]) + Len(addedSamples["url"])

\* a call of AddSample, gap seconds after the previous one
StoreAdd(nodeId, gap, newMetrics) ==
    /\ AddsMade < MaxAdds
    /\ newMetrics \in NewSamples(nodeId, sampleClock + gap)
    /\ PerNodeMetrics' = AddSample(nodeId, newMetrics)
    /\ sampleClock' = sampleClock + gap
    /\ addedSamples' = [addedSamples EXCEPT ![nodeId] = Append(@, newMetrics)]
    /\ lastCalc' = NoCalc
    /\ UNCHANGED << healVars, MetricSamplesToKeepPerNode, MetricSamplesForSyntheticMetricCalculation >>

\* a call of CalculateNodeHashRatePerSecond
StoreHashRate(nodeId) ==
    /\ lastCalc' = [op |-> "hashrate", key |-> nodeId,
                    err |-> CalculateNodeHashRatePerSecond(nodeId).err,
                    value |-> CalculateNodeHashRatePerSecond(nodeId).value]
    /\ PerNodeMetrics' = StoreAfterCalculation(PerNodeMetrics, nodeId)
    /\ UNCHANGED << healVars, MetricSamplesToKeepPerNode,
                    MetricSamplesForSyntheticMetricCalculation, sampleClock, addedSamples >>

\* a call of CalculateUptime
StoreUptime(endpointURL) ==
    /\ lastCalc' = [op |-> "uptime", key |-> endpointURL,
                    err |-> CalculateUptime(endpointURL).err,
                    value |-> CalculateUptime(endpointURL).value]
    /\ PerNodeMetrics' = StoreAfterCalculation(PerNodeMetrics, endpointURL)
    /\ UNCHANGED << healVars, MetricSamplesToKeepPerNode,
                    MetricSamplesForSyntheticMetricCalculation, sampleClock, addedSamples >>

\* ------------------------------------------------------------------ channels and dispatcher

\* make(chan ...): unbuffered in main.go of the doctor program (part_014:21-26),
\* buffered in its first version (main.go:63-64)
ChannelCapacities == {0, 1}

\* what CLI.metricCollectors may hold (config.go: ValidMetricCollectors)
CollectorLists == { << "file" >>, << "file", "cloudwatch" >> }

\* cli.go:190-257: the metrics built from one sync status sample
SyncMetricNames ==
    << "BlocksHashedPerSecond", "SyncStatus", "LatestBlockHeight", "SecondsBehindLive",
       "StatusCheckLatencyMilliseconds" >>

\* cli.go:292-305: the metric built from one uptime sample
UptimeMetricNames == << "Uptime" >>

\* everything but the channels, the store and the sinks
watcherSide == << config, watchVars, healers, initFailed, envGood, enterStandbyAttempts, ev,
                  lastProbe, cancelled, watcherReturned, sinkVars, detailVars >>

\* node.go:101-104 and 199-203: the goroutine a tick starts; it sends a log message,
\* then (after a successful check) the sync sample, then the uptime sample
Emitter(kind, statusCheckStartedAt, currentBlockNumber) ==
    [ pc |-> "log", kind |-> kind, SampledAt |-> statusCheckStartedAt,
      height |-> currentBlockNumber ]

\* where a goroutine stands after its send went through
AfterSend(e) ==
    CASE e.pc = "log" -> IF e.kind = "online" THEN "sync" ELSE "uptime"
      [] e.pc = "sync" -> "uptime"
      [] OTHER -> "done"

\* node.go:108-179: the sends on logMessages the loop itself makes after a failed check
OfflineDirectSends ==
    (IF currentDowntimeStartedAt = NoTime THEN 1 ELSE 0) + (IF AutohealEnabled THEN 2 ELSE 0)

\* node.go:205-332: the sends on logMessages the loop itself makes after a successful check
OnlineDirectSends ==
    1 + (IF ~AutohealEnabled THEN 1
         ELSE (IF ev'.outOfSync THEN 0 ELSE 1)
              + (IF ev'.restart = "R2" /\ lastRestartedByAutohealingAt = NoTime THEN 2 ELSE 1))

\* node.go:80-183 with its sends: a tick whose status check fails.  The loop takes
\* its next tick only after the sends of the previous one went through.
PipeOffline ==
    \E adv \in 1..MaxTickGap, lat \in 0..MaxCallSeconds :
        /\ ~watcherReturned
        /\ directSends = 0
        /\ Len(emitters) < MaxEmits
        /\ WatchTickOffline(adv, lat)
        /\ emitters' = Append(emitters, Emitter("offline", clock + adv, 0))
        /\ directSends' = OfflineDirectSends
        /\ UNCHANGED << lastProbe, channelCapacity, logMessages, syncStatusMetrics,
                        uptimeMetrics, metricCollectors, collectCalls, cancelled,
                        watcherReturned, sinkVars, detailVars >>

\* node.go:80-93 and 185-336 with its sends: a tick whose status check succeeds
\* (how far the node is behind live plays no part with autoheal off)
PipeOnline ==
    \E adv \in 1..MaxTickGap, lat \in 0..MaxCallSeconds,
       height \in 0..MaxHeight, behind \in {0} :
        /\ ~watcherReturned
        /\ directSends = 0
        /\ Len(emitters) < MaxEmits
        /\ WatchTickOnline(adv, lat, height, behind)
        /\ emitters' = Append(emitters, Emitter("online", clock + adv, height))
        /\ directSends' = OnlineDirectSends
        /\ UNCHANGED << lastProbe, channelCapacity, logMessages, syncStatusMetrics,
                        uptimeMetrics, metricCollectors, collectCalls, cancelled,
                        watcherReturned, sinkVars, detailVars >>

\* a send of the loop on the buffered logMessages channel goes through when there is room
WatcherSend ==
    /\ directSends > 0
    /\ logMessages < channelCapacity
    /\ logMessages' = logMessages + 1
    /\ directSends' = directSends - 1
    /\ UNCHANGED << watcherSide, storeVars, channelCapacity, syncStatusMetrics, uptimeMetrics,
                    emitters, metricCollectors, collectCalls >>

\* the sample a goroutine sends on a metric channel
SampleOf(e) == [SampledAt |-> e.SampledAt, height |-> e.height, Up |-> e.kind = "online"]

\* a send of goroutine i on a buffered channel goes through when there is room
EmitterSend(i) ==
    LET e == emitters[i]
    IN  /\ e.pc \in {"log", "sync", "uptime"}
        /\ CASE e.pc = "log" ->
                   /\ logMessages < channelCapacity
                   /\ logMessages' = logMessages + 1
                   /\ UNCHANGED << syncStatusMetrics, uptimeMetrics >>
              [] e.pc = "sync" ->
                   /\ Len(syncStatusMetrics) < channelCapacity
                   /\ syncStatusMetrics' = Append(syncStatusMetrics, SampleOf(e))
                   /\ UNCHANGED << logMessages, uptimeMetrics >>
              [] OTHER ->
                   /\ Len(uptimeMetrics) < channelCapacity
                   /\ uptimeMetrics' = Append(uptimeMetrics, SampleOf(e))
                   /\ UNCHANGED << logMessages, syncStatusMetrics >>
        /\ emitters' = [emitters EXCEPT ![i].pc = AfterSend(e)]
        /\ UNCHANGED << watcherSide, storeVars, channelCapacity, directSends, metricCollectors,
                        collectCalls >>

\* cli.go:320-321: the dispatcher receives a log message, from the buffer or, on an
\* unbuffered channel, straight from a sender that waits
DispatchLog ==
    /\ \/ /\ logMessages > 0
          /\ logMessages' = logMessages - 1
          /\ UNCHANGED << directSends, emitters >>
       \/ /\ channelCapacity = 0
          /\ directSends > 0
          /\ directSends' = directSends - 1
          /\ UNCHANGED << logMessages, emitters >>
       \/ /\ channelCapacity = 0
          /\ \E i \in 1..Len(emitters) :
                /\ emitters[i].pc = "log"
                /\ emitters' = [emitters EXCEPT ![i].pc = AfterSend(emitters[i])]
          /\ UNCHANGED << logMessages, directSends >>
    /\ UNCHANGED << watcherSide, storeVars, channelCapacity, syncStatusMetrics, uptimeMetrics,
                    metricCollectors, collectCalls >>

\* the (collector, metric) pairs in the order of the two loops of cli.go:262-271
CollectPairs(collectors, metrics) ==
    [ k \in 1..(Len(collectors) * Len(metrics)) |->
          << collectors[((k - 1) \div Len(metrics)) + 1], metrics[((k - 1) % Len(metrics)) + 1] >> ]

\* the sets of pairs whose Collect call returns an error
FailingSets(collectors, metrics) ==
    LET pairs == {CollectPairs(collectors, metrics)[k] :
                      k \in 1..(Len(collectors) * Len(metrics))}
    IN  {f \in SUBSET pairs : Cardinality(f) <= MaxCollectErrors \/ f = pairs}

\* variant of StopsOnCollectError: the first error ends the fan-out
StopsOnCollectErrorYes(err) == err

\* cli.go:265-267: an error of Collect is printed and the loops go on
StopsOnCollectError(err) == FALSE

\* cli.go:262-271: the Collect calls made from pair k on
RECURSIVE CollectFrom(_, _, _, _)
CollectFrom(pairs, k, failing, calls) ==
    IF k > Len(pairs)
    THEN calls
    ELSE LET err == pairs[k] \in failing
             made == [calls |-> Append(calls.calls, pairs[k]),
                      errors |-> IF err THEN calls.errors + 1 ELSE calls.errors]
         IN  IF StopsOnCollectError(err) THEN made ELSE CollectFrom(pairs, k + 1, failing, made)

FanOut(collectors, metrics, failing) ==
    CollectFrom(CollectPairs(collectors, metrics), 1, failing, NoCollectCalls)

\* variant of StoreSeenByCalculation: the calculation runs before AddSample
StoreSeenBeforeAdd(nodeId, newMetrics) == PerNodeMetrics

\* cli.go:171-178 and 275-280: the synthetic metric is calculated after AddSample
\* has stored the sample
StoreSeenByCalculation(nodeId, newMetrics) == AddSample(nodeId, newMetrics)

\* cli.go:178-257: an error of the hash-rate calculation is printed, and the five
\* metrics are built and appended whether there was one or not
MetricsOfSyncSample(hashRateErr) == SyncMetricNames

\* cli.go:169-271: what the dispatcher does with a sync status sample
HandleSyncStatusMetrics(sample, failing) ==
    LET newMetrics == SyncSample(sample.height, sample.SampledAt)
        hashRate == HashRatePerSecondOf(StoreSeenByCalculation("node", newMetrics), "node")
    IN  /\ UNCHANGED << MetricSamplesToKeepPerNode, MetricSamplesForSyntheticMetricCalculation >>
        /\ PerNodeMetrics' = AddSample("node", newMetrics)
        /\ addedSamples' = [addedSamples EXCEPT !["node"] = Append(@, newMetrics)]
        /\ sampleClock' = sample.SampledAt
        /\ lastCalc' = [op |-> "hashrate", key |-> "node",
                        err |-> hashRate.err, value |-> hashRate.value]
        /\ collectCalls' = FanOut(metricCollectors, MetricsOfSyncSample(hashRate.err), failing)

\* cli.go:272-318: what the dispatcher does with an uptime sample
HandleUptimeMetric(sample, failing) ==
    LET newMetrics == UptimeSample(sample.Up, sample.SampledAt)
        uptime == UptimeOf(StoreSeenByCalculation("url", newMetrics), "url")
    IN  /\ UNCHANGED << MetricSamplesToKeepPerNode, MetricSamplesForSyntheticMetricCalculation >>
        /\ PerNodeMetrics' = AddSample("url", newMetrics)
        /\ addedSamples' = [addedSamples EXCEPT !["url"] = Append(@, newMetrics)]
        /\ sampleClock' = sample.SampledAt
        /\ lastCalc' = [op |-> "uptime", key |-> "url",
                        err |-> uptime.err, value |-> uptime.value]
        /\ collectCalls' = IF uptime.err # ""
                           THEN NoCollectCalls
                           ELSE FanOut(metricCollectors, UptimeMetricNames, failing)

\* cli.go:169: the dispatcher receives a sync status sample and handles it
DispatchSync ==
    /\ \E failing \in FailingSets(metricCollectors, SyncMetricNames) :
          \/ /\ syncStatusMetrics # << >>
             /\ syncStatusMetrics' = Tail(syncStatusMetrics)
             /\ HandleSyncStatusMetrics(Head(syncStatusMetrics), failing)
             /\ UNCHANGED emitters
          \/ /\ channelCapacity = 0
             /\ \E i \in 1..Len(emitters) :
                   /\ emitters[i].pc = "sync"
                   /\ emitters' = [emitters EXCEPT ![i].pc = AfterSend(emitters[i])]
                   /\ HandleSyncStatusMetrics(SampleOf(emitters[i]), failing)
             /\ UNCHANGED syncStatusMetrics
    /\ UNCHANGED << watcherSide, channelCapacity, logMessages, uptimeMetrics, directSends,
                    metricCollectors >>

\* cli.go:272: the dispatcher receives an uptime sample and handles it
DispatchUptime ==
    /\ \E failing \in FailingSets(metricCollectors, UptimeMetricNames) :
          \/ /\ uptimeMetrics # << >>
             /\ uptimeMetrics' = Tail(uptimeMetrics)
             /\ HandleUptimeMetric(Head(uptimeMetrics), failing)
             /\ UNCHANGED emitters
          \/ /\ channelCapacity = 0
             /\ \E i \in 1..Len(emitters) :
                   /\ emitters[i].pc = "uptime"
                   /\ emitters' = [emitters EXCEPT ![i].pc = AfterSend(emitters[i])]
                   /\ HandleUptimeMetric(SampleOf(emitters[i]), failing)
             /\ UNCHANGED uptimeMetrics
    /\ UNCHANGED << watcherSide, channelCapacity, logMessages, syncStatusMetrics, directSends,
                    metricCollectors >>

\* ------------------------------------------------------------------ collectors

\* cli.go:190-305: the metrics CLI.Watch hands to the collectors, with their flags
CollectedMetrics ==
    { [Name |-> "BlocksHashedPerSecond", CollectToFile |-> TRUE, CollectToCloudwatch |-> TRUE],
      [Name |-> "SyncStatus", CollectToFile |-> TRUE, CollectToCloudwatch |-> FALSE],
      [Name |-> "LatestBlockHeight", CollectToFile |-> FALSE, CollectToCloudwatch |-> TRUE],
      [Name |-> "SecondsBehindLive", CollectToFile |-> FALSE, CollectToCloudwatch |-> TRUE],
      [Name |-> "StatusCheckLatencyMilliseconds", CollectToFile |-> FALSE,
       CollectToCloudwatch |-> TRUE],
      [Name |-> "Uptime", CollectToFile |-> TRUE, CollectToCloudwatch |-> TRUE] }

\* how a Collect call on the file can end: json.Marshal fails, Write fails, or neither
FileOutcomes == {"ok", "marshal", "write"}

\* what PutMetricData can return ("": no error)
ProviderErrors == {"", "throttled", "denied"}

\* file.go:96: the current file is due for rotation
RotationDue(now) == now - currentFileOpenedAt >= RotationSeconds

\* file.go:122-138: rotateFile opens the new file and makes it current; it does not
\* close the file that was current
HandlesAfterRotation(rotated) == IF rotated THEN openFileHandles + 1 ELSE openFileHandles

\* file.go:90-117 with rotateFile (122-138): FileCollector.Collect.  The error of
\* rotateFile is dropped, the metric is marshalled and written whatever its flags.
FileCollect(metric, adv, rotateErr, outcome) ==
    LET now == clock + adv
        rotated == RotationDue(now) /\ ~rotateErr
        file == IF rotated THEN << >> ELSE currentFile
        writes == outcome = "ok"
    IN  /\ now <= MaxTime
        /\ Len(currentFile) + Len(putMetricData) < MaxCollects
        /\ clock' = now
        /\ currentFileOpenedAt' = IF rotated THEN now ELSE currentFileOpenedAt
        /\ openFileHandles' = HandlesAfterRotation(rotated)
        /\ currentFile' = IF writes THEN Append(file, metric.Name) ELSE file
        /\ lastCollect' = [ collector |-> "file", metric |-> metric.Name,
                            CollectToFile |-> metric.CollectToFile,
                            CollectToCloudwatch |-> metric.CollectToCloudwatch,
                            err |-> IF writes THEN "" ELSE outcome,
                            written |-> IF writes THEN 1 ELSE 0,
                            apiCalls |-> 0, providerErr |-> "", rotated |-> rotated ]
        /\ UNCHANGED << config, outOfSyncAutohealingInProgress, restartVars, healers,
                        initFailed, envGood, enterStandbyAttempts, ev, lastProbe, storeVars,
                        channelCapacity, logMessages, syncStatusMetrics, uptimeMetrics,
                        emitters, directSends, metricCollectors, collectCalls, cancelled,
                        watcherReturned, putMetricData, lastSample, fileLock, collecting,
                        watcherAt, taskCalls >>

\* variant of SkipsCloudwatch: every metric is sent
SkipsCloudwatchNever(metric) == FALSE

\* cloudwatch.go:82-85: a metric not meant for CloudWatch is skipped
SkipsCloudwatch(metric) == ~metric.CollectToCloudwatch

\* cloudwatch.go:81-121: CloudWatchCollector.Collect
CloudWatchCollect(metric, providerErr) ==
    LET sent == IF SkipsCloudwatch(metric) THEN putMetricData
                ELSE Append(putMetricData, metric.Name)
    IN  /\ Len(currentFile) + Len(putMetricData) < MaxCollects
        /\ putMetricData' = sent
        /\ lastCollect' = [ collector |-> "cloudwatch", metric |-> metric.Name,
                            CollectToFile |-> metric.CollectToFile,
                            CollectToCloudwatch |-> metric.CollectToCloudwatch,
                            err |-> IF SkipsCloudwatch(metric) THEN "" ELSE providerErr,
                            written |-> 0,
                            apiCalls |-> Len(sent) - Len(putMetricData),
                            providerErr |-> providerErr, rotated |-> FALSE ]
        /\ UNCHANGED << config, watchVars, healers, initFailed, envGood, enterStandbyAttempts,
                        ev, lastProbe, storeVars, channelCapacity, logMessages,
                        syncStatusMetrics, uptimeMetrics, emitters, directSends,
                        metricCollectors, collectCalls, cancelled, watcherReturned,
                        currentFile, currentFileOpenedAt, detailVars >>

\* the caller of WatchSyncStatus cancels the context it handed over
Cancel ==
    /\ ~cancelled
    /\ cancelled' = TRUE
    /\ UNCHANGED << config, watchVars, healers, initFailed, envGood, enterStandbyAttempts, ev,
                    lastProbe, storeVars, channelCapacity, logMessages, syncStatusMetrics,
                    uptimeMetrics, emitters, directSends, metricCollectors, collectCalls,
                    watcherReturned, sinkVars, detailVars >>

\* node.go:77-79: back at its select, the watcher loop takes the Done case and returns
WatcherReturn ==
    /\ cancelled
    /\ ~watcherReturned
    /\ directSends = 0
    /\ watcherReturned' = TRUE
    /\ UNCHANGED << config, watchVars, healers, initFailed, envGood, enterStandbyAttempts, ev,
                    lastProbe, storeVars, channelCapacity, logMessages, syncStatusMetrics,
                    uptimeMetrics, emitters, directSends, metricCollectors, collectCalls,
                    cancelled, sinkVars, detailVars >>

\* cli.go:164-322: the loop of CLI.Watch selects on the three channels only; it has no
\* case for a context and no return
DispatcherReturned == FALSE

\* ------------------------------------------------------------------ file collector: a call, step by step

\* everything but the FileCollector and the clock
aroundFile == << config, outOfSyncAutohealingInProgress, restartVars, healers, initFailed,
                 envGood, enterStandbyAttempts, ev, lastProbe, storeVars, channelCapacity,
                 logMessages, syncStatusMetrics, uptimeMetrics, emitters, directSends,
                 metricCollectors, collectCalls, cancelled, watcherReturned, putMetricData,
                 lastCollect, lastSample, watcherAt, taskCalls >>

\* variant of LockFree: Lock returns whoever holds the mutex
LockFreeAlways == TRUE

\* file.go:92: sync.Mutex.Lock returns only when no goroutine holds the mutex
LockFree == fileLock = NoCaller

\* file.go:90-92: a goroutine calls Collect and gets the lock
CollectLock(c, metric) ==
    /\ collecting[c].pc = "idle"
    /\ Len(currentFile) < MaxCollects
    /\ LockFree
    /\ fileLock' = c
    /\ collecting' = [collecting EXCEPT ![c] = [pc |-> "locked", metric |-> metric.Name, err |-> ""]]
    /\ UNCHANGED << aroundFile, clock, currentFile, currentFileOpenedAt, openFileHandles >>

\* file.go:96-98 with rotateFile (122-138): the rotation check and, when due, the rotation
CollectRotate(c, adv, rotateErr) ==
    LET now == clock + adv
        rotated == RotationDue(now) /\ ~rotateErr
    IN  /\ collecting[c].pc = "locked"
        /\ now <= MaxTime
        /\ clock' = now
        /\ currentFileOpenedAt' = IF rotated THEN now ELSE currentFileOpenedAt
        /\ currentFile' = IF rotated THEN << >> ELSE currentFile
        /\ openFileHandles' = HandlesAfterRotation(rotated)
        /\ collecting' = [collecting EXCEPT ![c].pc = "checked"]
        /\ UNCHANGED << aroundFile, fileLock >>

\* file.go:101-116: json.Marshal and Write on the current file, then the return
CollectWrite(c, outcome) ==
    /\ collecting[c].pc = "checked"
    /\ currentFile' = IF outcome = "ok" THEN Append(currentFile, collecting[c].metric)
                      ELSE currentFile
    /\ collecting' = [collecting EXCEPT ![c].pc = "returning",
                                        ![c].err = IF outcome = "ok" THEN "" ELSE outcome]
    /\ UNCHANGED << aroundFile, clock, currentFileOpenedAt, openFileHandles, fileLock >>

\* file.go:95: the deferred Unlock runs as Collect returns, whatever it returns
CollectUnlock(c) ==
    /\ collecting[c].pc = "returning"
    /\ fileLock' = IF fileLock = c THEN NoCaller ELSE fileLock
    /\ collecting' = [collecting EXCEPT ![c] = IdleCall]
    /\ UNCHANGED << aroundFile, clock, currentFile, currentFileOpenedAt, openFileHandles >>

\* ------------------------------------------------------------------ status check: the sample

\* the instants, in milliseconds, the clocks of one status check can show
ProbeInstants == {500 * i : i \in 0..MaxHalfSeconds}

\* node.go:189: int64(d.Seconds()), the conversion of a float64 to int64, drops the
\* fraction: it rounds towards zero
TruncatedSeconds(milliseconds) ==
    IF milliseconds >= 0 THEN milliseconds \div 1000 ELSE 0 - ((0 - milliseconds) \div 1000)

\* node.go:189: secondsBehindLive = int64(time.Since(currentSyncTime).Seconds())
SecondsBehindLive(now, currentSyncTime) == TruncatedSeconds(now - currentSyncTime)

\* node.go:195: statusCheckEndedAt.Sub(statusCheckStartedAt).Milliseconds()
SampleLatencyMilliseconds(statusCheckStartedAt, statusCheckEndedAt) ==
    statusCheckEndedAt - statusCheckStartedAt

\* node.go:84-86 and 186-197: one successful status check.  The three clock readings
\* are taken in program order; LatestBlockTime is what the node reports.
ProbeSample(statusCheckStartedAt, statusCheckEndedAt, now, currentSyncTime) ==
    /\ lastSample.now <= statusCheckStartedAt
    /\ statusCheckStartedAt <= statusCheckEndedAt
    /\ statusCheckEndedAt <= now
    /\ lastSample' =
           [ SampledAt |-> statusCheckStartedAt, EndedAt |-> statusCheckEndedAt, now |-> now,
             LatestBlockTime |-> currentSyncTime,
             SecondsBehindLive |-> SecondsBehindLive(now, currentSyncTime),
             SampleLatencyMilliseconds |->
                 SampleLatencyMilliseconds(statusCheckStartedAt, statusCheckEndedAt) ]
    /\ UNCHANGED << runVars, storeVars, openFileHandles, fileLock, collecting, watcherAt,
                    taskCalls >>

\* ------------------------------------------------------------------ the flag of rule R3, access by access

\* the rest of the state of the single-operation models
besideWatcher == << lastSample, openFileHandles, fileLock, collecting, taskCalls >>

\* the channels, the dispatcher and the sinks
busVars == << channelCapacity, logMessages, syncStatusMetrics, uptimeMetrics, emitters,
              directSends, metricCollectors, collectCalls, cancelled, watcherReturned, sinkVars >>

\* node.go:80-93, 185-223: a status check has succeeded and shows the node out of
\* sync; the loop is about to read outOfSyncAutohealingInProgress (223).  Nothing
\* in the loop waits for a lock on the way.
FlagTickBegin(adv, lat, currentBlockNumber, secondsBehindLive) ==
    /\ watcherAt.pc = "select"
    /\ AutohealEnabled /\ IsOutOfSync(secondsBehindLive)
    /\ clock + adv + lat + MaxCallSeconds <= MaxTime
    /\ watcherAt' = [ pc |-> "flag", adv |-> adv, lat |-> lat, height |-> currentBlockNumber,
                      behind |-> secondsBehindLive ]
    /\ UNCHANGED << runVars, storeVars, besideWatcher >>

\* node.go:223-336: the loop reads the flag, sets it and starts the healing task
\* when it was not set, and goes on to the frozen rule
FlagTickEnd ==
    /\ watcherAt.pc = "flag"
    /\ WatchTickOnline(watcherAt.adv, watcherAt.lat, watcherAt.height, watcherAt.behind)
    /\ watcherAt' = AtSelect
    /\ UNCHANGED << lastProbe, busVars, besideWatcher >>

\* node.go:80-93, 185-336: a tick whose sample is not out of sync does not touch the flag
FlagTickInSync(adv, lat, currentBlockNumber, secondsBehindLive) ==
    /\ watcherAt.pc = "select"
    /\ ~IsOutOfSync(secondsBehindLive)
    /\ WatchTickOnline(adv, lat, currentBlockNumber, secondsBehindLive)
    /\ UNCHANGED << lastProbe, pipeVars >>

\* ------------------------------------------------------------------ specification

DescribeResults == LifecycleStates \cup {"error", "count"}

Offline ==
    \E adv \in 1..MaxTickGap, lat \in 0..MaxCallSeconds :
        WatchTickOffline(adv, lat) /\ UNCHANGED << lastProbe, pipeVars >>

Online ==
    \E adv \in 1..MaxTickGap, lat \in 0..MaxCallSeconds,
       height \in 0..MaxHeight, behind \in 0..MaxBehind :
        WatchTickOnline(adv, lat, height, behind) /\ UNCHANGED << lastProbe, pipeVars >>

HealTask(h) ==
    \/ \E res \in DescribeResults : HealStart(h, res)
    \/ \E ok \in BOOLEAN : HealEnterStandby(h, ok)
    \/ \E ok \in BOOLEAN : \E behind \in (IF ok THEN 0..MaxBehind ELSE {0}) : HealPoll(h, ok, behind)
    \/ \E res \in DescribeResults : HealDescribe(h, res)
    \/ \E ok \in BOOLEAN : HealExitStandby(h, ok)
    \/ HealRelease(h)

Heal(h) == HealTask(h) /\ UNCHANGED << lastProbe, pipeVars >>

\* the rest of the state of the single-operation models
besideTask == << lastSample, openFileHandles, fileLock, collecting, watcherAt >>

\* heal.go:58-185: one step of a healing task, with the calls the task has made so far
TracedHeal(h) ==
    /\ \/ /\ \E res \in DescribeResults : HealStart(h, res)
          /\ UNCHANGED taskCalls
       \/ \E ok \in BOOLEAN :
             /\ HealEnterStandby(h, ok)
             /\ taskCalls' = [taskCalls EXCEPT ![h].entered = TRUE, ![h].enterFailed = ~ok]
       \/ \E ok \in BOOLEAN : \E behind \in (IF ok THEN 0..MaxBehind ELSE {0}) :
             /\ HealPoll(h, ok, behind)
             /\ taskCalls' =
                    [taskCalls EXCEPT ![h].polled = TRUE,
                                      ![h].caughtUp =
                                          @ \/ (ok /\ behind <= config.AutohealSyncToLiveToleranceSeconds)]
       \/ /\ \E res \in DescribeResults : HealDescribe(h, res)
          /\ UNCHANGED taskCalls
       \/ /\ \E ok \in BOOLEAN : HealExitStandby(h, ok)
          /\ taskCalls' = [taskCalls EXCEPT ![h].exited = TRUE]
       \/ /\ HealRelease(h)
          /\ taskCalls' = [taskCalls EXCEPT ![h] = NoCalls]
    /\ UNCHANGED << lastProbe, busVars, besideTask >>

Next ==
    \/ Offline
    \/ Online
    \/ \E h \in Healers : Heal(h)

Spec == Init /\ [][Next]_vars

\* The watcher under the default restart thresholds (config.go:48-50 and 85), with a
\* node and an autoscaling service that may recover.  The Go scheduler runs every
\* runnable goroutine: a healing task that can take a step takes one.
LiveConfig ==
    [ Autoheal |-> TRUE,
      AutohealSyncLatencyToleranceSeconds |-> 1,
      AutohealSyncToLiveToleranceSeconds |-> 0,
      AutohealRestartDelaySeconds |-> 2700,
      AutohealInitialAllowedDelaySeconds |-> 0,
      NoNewBlocksRestartThresholdSeconds |-> 300,
      DowntimeRestartThresholdSeconds |-> 300 ]

LiveInit ==
    /\ WatchInit({LiveConfig})
    /\ NoPipe
    /\ NewEndpoint([MetricSamplesToKeepPerNode |-> 0, MetricSamplesForSyntheticMetricCalculation |-> 0])

LiveNext == Next \/ Stabilize

HealStep == \E h \in Healers : Heal(h)

LiveSpec == LiveInit /\ [][LiveNext]_vars /\ WF_vars(HealStep)

\* The restart rules on their own: the watcher with a node that is never out of
\* sync, so that no healing task starts, and with what each status check observed
\* kept in lastProbe.
RestartConfigSet ==
    ConfigSet \cup {[c EXCEPT !.DowntimeRestartThresholdSeconds = 0] : c \in ConfigSet}

RestartInit ==
    /\ WatchInit(RestartConfigSet)
    /\ NoPipe
    /\ initFailed = FALSE
    /\ NewEndpoint([MetricSamplesToKeepPerNode |-> 0, MetricSamplesForSyntheticMetricCalculation |-> 0])

RestartOffline ==
    \E adv \in 1..MaxTickGap, lat \in 0..MaxCallSeconds :
        /\ WatchTickOffline(adv, lat)
        /\ lastProbe' = [ SampledAt |-> clock + adv, EndedAt |-> clock + adv + lat,
                          height |-> 0, newBlock |-> FALSE,
                          onlyFailures |-> lastProbe.onlyFailures,
                          restartedBefore |-> lastRestartedByAutohealingAt # NoTime ]
        /\ UNCHANGED pipeVars

RestartOnline ==
    \E adv \in 1..MaxTickGap, lat \in 0..MaxCallSeconds,
       height \in 0..MaxHeight, behind \in {b \in 0..MaxBehind : ~IsOutOfSync(b)} :
        /\ WatchTickOnline(adv, lat, height, behind)
        /\ lastProbe' = [ SampledAt |-> clock + adv, EndedAt |-> clock + adv + lat,
                          height |-> height,
                          newBlock |-> height > lastSynchedBlockNumber,
                          onlyFailures |-> FALSE,
                          restartedBefore |-> lastRestartedByAutohealingAt # NoTime ]
        /\ UNCHANGED pipeVars

RestartNext == RestartOffline \/ RestartOnline

RestartSpec == RestartInit /\ [][RestartNext]_vars

\* The watcher with autoheal switched off, its channels and the dispatcher that
\* receives from them: CLI.Watch with an Endpoint of the default sizes.
DispatchInit ==
    /\ WatchInit({[LiveConfig EXCEPT !.Autoheal = FALSE]})
    /\ initFailed = FALSE
    /\ channelCapacity \in ChannelCapacities
    /\ metricCollectors \in CollectorLists
    /\ NewEndpoint([MetricSamplesToKeepPerNode |-> 0, MetricSamplesForSyntheticMetricCalculation |-> 0])

DispatchNext ==
    \/ PipeOffline
    \/ PipeOnline
    \/ WatcherSend
    \/ \E i \in 1..Len(emitters) : EmitterSend(i)
    \/ DispatchLog
    \/ DispatchSync
    \/ DispatchUptime

DispatchSpec == DispatchInit /\ [][DispatchNext]_vars

\* The watcher and the dispatcher with a context that the caller may cancel.  Every
\* goroutine that can take a step is scheduled in the end.
CancelNext ==
    \/ PipeOffline
    \/ PipeOnline
    \/ WatcherSend
    \/ \E i \in 1..Len(emitters) : EmitterSend(i)
    \/ DispatchLog
    \/ DispatchSync
    \/ DispatchUptime
    \/ Cancel
    \/ WatcherReturn

Delivery ==
    \/ WatcherSend
    \/ \E i \in 1..Len(emitters) : EmitterSend(i)
    \/ DispatchLog
    \/ DispatchSync
    \/ DispatchUptime

CancelSpec ==
    /\ DispatchInit
    /\ [][CancelNext]_vars
    /\ WF_vars(Delivery)
    /\ WF_vars(WatcherReturn)

\* The two collectors on their own: a FileCollector built by NewFileCollector at
\* second 0 and a CloudWatchCollector, then Collect calls on either in any order.
CollectInit ==
    /\ WatchInit({LiveConfig})
    /\ NoPipe
    /\ initFailed = FALSE
    /\ NewEndpoint([MetricSamplesToKeepPerNode |-> 0, MetricSamplesForSyntheticMetricCalculation |-> 0])

CollectNext ==
    \/ \E metric \in CollectedMetrics, adv \in 0..MaxTickGap, rotateErr \in BOOLEAN,
          outcome \in FileOutcomes : FileCollect(metric, adv, rotateErr, outcome)
    \/ \E metric \in CollectedMetrics, providerErr \in ProviderErrors :
          CloudWatchCollect(metric, providerErr)

CollectSpec == CollectInit /\ [][CollectNext]_vars

\* The watcher and its healing tasks with the accesses to the flag of rule R3 as
\* steps of their own.
FlagInit ==
    /\ WatchInit({LiveConfig})
    /\ NoPipe
    /\ NewEndpoint([MetricSamplesToKeepPerNode |-> 0, MetricSamplesForSyntheticMetricCalculation |-> 0])

FlagNext ==
    \/ \E adv \in 1..MaxTickGap, lat \in 0..MaxCallSeconds,
          height \in 0..MaxHeight, behind \in 0..MaxBehind :
          \/ FlagTickBegin(adv, lat, height, behind)
          \/ FlagTickInSync(adv, lat, height, behind)
    \/ FlagTickEnd
    \/ \E h \in Healers : Heal(h)

FlagSpec == FlagInit /\ [][FlagNext]_vars

\* The watcher with a node that answers every status check, and the healing tasks
\* rule R3 starts, each with the calls it has made.
TaskInit ==
    /\ WatchInit({LiveConfig})
    /\ NoPipe
    /\ initFailed = FALSE
    /\ NewEndpoint([MetricSamplesToKeepPerNode |-> 0, MetricSamplesForSyntheticMetricCalculation |-> 0])

TaskNext ==
    \/ Online
    \/ \E h \in Healers : TracedHeal(h)

TaskSpec == TaskInit /\ [][TaskNext]_vars

\* The FileCollector with goroutines that call Collect at the same time.
LockNext ==
    \/ \E c \in Callers, metric \in CollectedMetrics : CollectLock(c, metric)
    \/ \E c \in Callers, adv \in 0..MaxTickGap, rotateErr \in BOOLEAN :
          CollectRotate(c, adv, rotateErr)
    \/ \E c \in Callers, outcome \in FileOutcomes : CollectWrite(c, outcome)
    \/ \E c \in Callers : CollectUnlock(c)

LockSpec == CollectInit /\ [][LockNext]_vars

\* The metric store on its own: an Endpoint built by NewEndpoint, then calls of
\* AddSample and of the synthetic-metric calculation in any order.
StoreInit ==
    /\ WatchInit({LiveConfig})
    /\ NoPipe
    /\ initFailed = FALSE
    /\ \E endpointConfig \in EndpointConfigs : NewEndpoint(endpointConfig)

StoreNext ==
    \/ \E nodeId \in StoreKeys, gap \in SampleGaps :
          \E newMetrics \in NewSamples(nodeId, sampleClock + gap) : StoreAdd(nodeId, gap, newMetrics)
    \/ \E nodeId \in StoreKeys : StoreHashRate(nodeId)
    \/ \E endpointURL \in StoreKeys : StoreUptime(endpointURL)

StoreSpec == StoreInit /\ [][StoreNext]_vars

\* One status check after another, each with the clocks it reads and the block time
\* the node reports.
ProbeInit ==
    /\ WatchInit({LiveConfig})
    /\ NoPipe
    /\ initFailed = FALSE
    /\ NewEndpoint([MetricSamplesToKeepPerNode |-> 0, MetricSamplesForSyntheticMetricCalculation |-> 0])

ProbeNext ==
    \E statusCheckStartedAt \in ProbeInstants, statusCheckEndedAt \in ProbeInstants,
       now \in ProbeInstants, currentSyncTime \in ProbeInstants :
        ProbeSample(statusCheckStartedAt, statusCheckEndedAt, now, currentSyncTime)

ProbeSpec == ProbeInit /\ [][ProbeNext]_vars

\* ------------------------------------------------------------------ metric store: properties

Min(a, b) == IF a < b THEN a ELSE b

HasSync(metric) == metric.SyncStatusMetrics # NilMetric

\* the sync samples stored for a key, oldest first
StoredSync(nodeId) == SelectSeq(Stored(nodeId), HasSync)

\* the most recent sync samples of a key, at most the window size, oldest first
SyncWindow(nodeId) ==
    LET sync == StoredSync(nodeId)
        k == Min(MetricSamplesForSyntheticMetricCalculation, Len(sync))
    IN  SubSeq(sync, Len(sync) - k + 1, Len(sync))

StrictlyIncreasing(window) ==
    \A i \in 2..Len(window) :
        window[i - 1].SyncStatusMetrics[1].SampledAt < window[i].SyncStatusMetrics[1].SampledAt

\* sum over j = 2..i of (height_j - height_(j-1)) / (seconds between sample j-1 and sample j)
RECURSIVE RateSum(_, _)
RateSum(window, i) ==
    IF i < 2 THEN Fraction(0, 1)
    ELSE FloatSum(RateSum(window, i - 1),
                  Fraction(window[i].SyncStatusMetrics[1].LatestBlockHeight
                               - window[i - 1].SyncStatusMetrics[1].LatestBlockHeight,
                           window[i].SyncStatusMetrics[1].SampledAt
                               - window[i - 1].SyncStatusMetrics[1].SampledAt))

MeanRate(window) == FloatOver(RateSum(window, Len(window)), Len(window) - 1)

C10_LengthIsMinOfCallsAndCapacity ==
    \A nodeId \in StoreKeys :
        Len(Stored(nodeId)) = Min(Len(addedSamples[nodeId]), MetricSamplesToKeepPerNode)

\* a key that received more samples than the capacity
C10_Witness ==
    \E nodeId \in StoreKeys :
        /\ Len(addedSamples[nodeId]) > MetricSamplesToKeepPerNode
        /\ Len(Stored(nodeId)) = MetricSamplesToKeepPerNode

\* the last n elements of a sequence, all of them when it has fewer
LastN(s, n) == SubSeq(s, Len(s) - Min(n, Len(s)) + 1, Len(s))

\* C11: the sequence stored for a key is the last min(n, capacity) samples handed to
\* AddSample for it, in the order of the calls: at capacity AddSample drops the head
\* and appends at the tail, and touches nothing else.
C11_StoredIsLastAddedInOrder ==
    \A nodeId \in StoreKeys :
        Stored(nodeId) = LastN(addedSamples[nodeId], MetricSamplesToKeepPerNode)

\* a key at capacity 2 that received three different samples and holds the last two
C11_Witness ==
    \E nodeId \in StoreKeys :
        /\ MetricSamplesToKeepPerNode = 2
        /\ Len(addedSamples[nodeId]) = 3
        /\ addedSamples[nodeId][1] # addedSamples[nodeId][2]
        /\ addedSamples[nodeId][2] # addedSamples[nodeId][3]
        /\ Stored(nodeId) = << addedSamples[nodeId][2], addedSamples[nodeId][3] >>

HasUptime(metric) == metric.UptimeMetric # NilMetric

\* the uptime samples stored for a key, oldest first
StoredUptime(endpointURL) == SelectSeq(Stored(endpointURL), HasUptime)

\* the most recent uptime samples of a key, at most the window size, oldest first
UptimeWindow(endpointURL) ==
    LastN(StoredUptime(endpointURL), MetricSamplesForSyntheticMetricCalculation)

\* the number of samples of a window that saw the endpoint up
UpCount(window) == Cardinality({i \in 1..Len(window) : window[i].UptimeMetric[1].Up})

\* C12: for a key with k = min(W, stored uptime samples) >= 1, CalculateUptime returns
\* (number of up samples among the k most recent uptime samples) / k, and every value
\* it returns lies between 0 and 1.
C12_UptimeIsShareOfUpSamples ==
    lastCalc.op = "uptime" =>
        LET window == UptimeWindow(lastCalc.key)
        IN  /\ Len(window) >= 1 =>
                  /\ lastCalc.err = ""
                  /\ lastCalc.value = Fraction(UpCount(window), Len(window))
            /\ lastCalc.err = "" =>
                  /\ lastCalc.value.kind = "num"
                  /\ 0 <= lastCalc.value.num
                  /\ lastCalc.value.num <= lastCalc.value.den

\* an uptime of one half, for a key whose window leaves out an older uptime sample
\* and which also holds a sync sample
C12_Witness ==
    /\ lastCalc.op = "uptime"
    /\ lastCalc.err = ""
    /\ lastCalc.value = Fraction(1, 2)
    /\ Len(StoredUptime(lastCalc.key)) > Len(UptimeWindow(lastCalc.key))
       \/ Len(Stored(lastCalc.key)) > Len(StoredUptime(lastCalc.key))

\* C13: CalculateUptime returns ErrNodeMetricsNotFound for a key without entries and
\* ErrInsufficientMetricSamples for a key whose entries carry no uptime sample.
C13_UptimeErrors ==
    lastCalc.op = "uptime" =>
        /\ Stored(lastCalc.key) = << >> => lastCalc.err = ErrNodeMetricsNotFound
        /\ (Stored(lastCalc.key) # << >> /\ StoredUptime(lastCalc.key) = << >>)
               => lastCalc.err = ErrInsufficientMetricSamples

\* the insufficient-samples error for a key that holds sync samples only
C13_Witness ==
    /\ lastCalc.op = "uptime"
    /\ lastCalc.err = ErrInsufficientMetricSamples
    /\ Len(StoredSync(lastCalc.key)) >= 1
    /\ StoredUptime(lastCalc.key) = << >>

\* seconds between sample i-1 and sample i of a window
DeltaSeconds(window, i) ==
    window[i].SyncStatusMetrics[1].SampledAt - window[i - 1].SyncStatusMetrics[1].SampledAt

\* the pairs (i-1, i) of a window whose time delta is positive
ValidPairs(window) == {i \in 2..Len(window) : DeltaSeconds(window, i) > 0}

\* sum of the block rates of the valid pairs up to position i
RECURSIVE ValidRateSum(_, _)
ValidRateSum(window, i) ==
    IF i < 2 THEN Fraction(0, 1)
    ELSE IF i \in ValidPairs(window)
         THEN FloatSum(ValidRateSum(window, i - 1),
                       Fraction(window[i].SyncStatusMetrics[1].LatestBlockHeight
                                    - window[i - 1].SyncStatusMetrics[1].LatestBlockHeight,
                                DeltaSeconds(window, i)))
         ELSE ValidRateSum(window, i - 1)

\* C14: a pair of retained sync samples whose time delta is not positive is skipped
\* by the hash-rate calculation and taken out of the denominator; with no valid pair
\* left the calculation returns ErrInsufficientMetricSamples.
C14_NonPositiveDeltaPairsSkipped ==
    lastCalc.op = "hashrate" =>
        LET window == SyncWindow(lastCalc.key)
            valid == ValidPairs(window)
        IN  (Len(window) >= 2 /\ Cardinality(valid) < Len(window) - 1) =>
                IF valid = {}
                THEN lastCalc.err = ErrInsufficientMetricSamples
                ELSE /\ lastCalc.err = ""
                     /\ lastCalc.value
                            = FloatOver(ValidRateSum(window, Len(window)), Cardinality(valid))

\* the result a calculation would give on a store
ResultOn(perNodeMetrics, calc) ==
    IF calc.op = "hashrate" THEN HashRatePerSecondOf(perNodeMetrics, calc.key)
    ELSE UptimeOf(perNodeMetrics, calc.key)

C1_RestartsAtLeastDelayApart ==
    [][ (ev'.restartOk /\ lastRestartedByAutohealingAt # NoTime) =>
            lastRestartedByAutohealingAt' - lastRestartedByAutohealingAt
                >= config.AutohealRestartDelaySeconds ]_vars

\* C2: at most one healing task is active, the flag is set exactly while one is; an
\* out-of-sync sample that finds the flag set starts no task, and EnterStandby is
\* called at most once between the flag being set and being cleared.
C2_AtMostOneHealingTask ==
    /\ Cardinality(ActiveHealers) <= 1
    /\ outOfSyncAutohealingInProgress <=> (ActiveHealers # {})
    /\ (ev.op = "online" /\ ev.outOfSync /\ ev.flagBefore) => (~ev.spawned /\ ev.call = "none")
    /\ enterStandbyAttempts <= 1

\* a second out-of-sync sample arrives while the task started by the first has called EnterStandby
C2_Witness ==
    /\ ev.op = "online" /\ ev.outOfSync /\ ev.flagBefore
    /\ enterStandbyAttempts = 1
    /\ \E h \in Healers : healers[h].pc = "poll" /\ healers[h].placedOnStandby

\* C3: every successful sample clears currentDowntimeStartedAt.
C3_SuccessClearsDowntimeStart ==
    ev.op = "online" => currentDowntimeStartedAt = NoTime

\* C4: with autoheal enabled, RestartBlockchainService is not called before
\* earliestAllowedRestartTime.
C4_NoRestartBeforeInitialDelay ==
    ev.restart # "none" => ev.restartAt >= earliestAllowedRestartTime

\* C5: with autoheal disabled no tick calls RestartBlockchainService or starts a
\* healing task, and no autoscaling call is made.
C5_DisabledAutohealDoesNothing ==
    ~config.Autoheal =>
        /\ ev.restart = "none"
        /\ ~ev.spawned
        /\ ev.call \notin {"Describe", "EnterStandby", "ExitStandby"}
        /\ ActiveHealers = {}
        /\ ~outOfSyncAutohealingInProgress
        /\ lastRestartedByAutohealingAt = NoTime

\* autoheal disabled, the endpoint offline for longer than the downtime threshold
C5_Witness ==
    /\ ~config.Autoheal
    /\ ev.op = "offline"
    /\ currentDowntimeStartedAt # NoTime
    /\ clock - currentDowntimeStartedAt > config.DowntimeRestartThresholdSeconds + MaxCallSeconds

\* C6: a healing task that holds placedOnStandby, once status polls show a caught-up
\* node and autoscaling calls succeed, puts the node back in service (ExitStandby
\* returned, or the lookup showed InService), ends, and the flag is cleared.
C6_HealingTaskCompletes ==
    /\ (envGood /\ \E h \in Healers : /\ healers[h].placedOnStandby
                                       /\ healers[h].pc \in {"poll", "describe", "exit"})
           ~> (ev.call \in {"Describe", "ExitStandby"} /\ \E h \in Healers : healers[h].pc = "release")
    /\ (envGood /\ \E h \in Healers : healers[h].pc = "release")
           ~> (ActiveHealers = {} /\ ~outOfSyncAutohealingInProgress)

\* a task that was placed on standby has just had ExitStandby succeed
C6_Witness ==
    \E h \in Healers :
        /\ envGood
        /\ healers[h].placedOnStandby
        /\ healers[h].pc = "release"
        /\ ev.call = "ExitStandby"

\* C7: while a healing task is active the restart rules still run: a tick that
\* finds the flag set calls RestartBlockchainService exactly when its rule's
\* conditions hold; a restart leaves the flag alone (only the out-of-sync rule
\* sets it) and a step of the healing task leaves the restart state alone.
C7_RestartRulesRunWhileHealing ==
    [][ /\ (ev'.op \in {"offline", "online"} /\ config.Autoheal /\ outOfSyncAutohealingInProgress)
            => ((ev'.restart # "none") <=> ev'.due)
        /\ ev'.op = "offline" =>
               outOfSyncAutohealingInProgress' = outOfSyncAutohealingInProgress
        /\ ev'.op = "online" =>
               outOfSyncAutohealingInProgress' = (outOfSyncAutohealingInProgress \/ ev'.spawned)
        /\ ev'.op = "heal" => UNCHANGED restartVars ]_vars

\* an out-of-sync sample that finds a healing task at work and is restarted by the frozen rule
C7_Witness ==
    /\ ev.op = "online" /\ ev.outOfSync /\ ev.flagBefore
    /\ ev.restart = "R2" /\ ev.restartOk
    /\ ActiveHealers # {}

C16_FrozenRuleRestarts ==
    [][ (ev'.op = "online" /\ config.Autoheal) =>
            LET observedAt == IF lastProbe'.newBlock THEN lastProbe'.EndedAt
                              ELSE lastNewBlockObservedAt
                frozen == lastProbe'.EndedAt - observedAt
                past == lastProbe'.EndedAt >= earliestAllowedRestartTime
                above == frozen > config.NoNewBlocksRestartThresholdSeconds
                called == ev'.restart = "R2"
            IN  /\ (past /\ above /\ lastRestartedByAutohealingAt = NoTime) => called
                /\ (past /\ above /\ lastRestartedByAutohealingAt # NoTime) =>
                      (called <=> frozen >= config.AutohealRestartDelaySeconds)
                /\ ~above => ~called
                /\ (called /\ ev'.restartOk) =>
                      /\ lastRestartedByAutohealingAt' = clock'
                      /\ lastNewBlockObservedAt' = clock' ]_vars

\* the frozen rule restarts the service a second time
C16_Witness ==
    /\ ev.op = "online" /\ ev.restart = "R2" /\ ev.restartOk
    /\ lastProbe.restartedBefore
    /\ lastNewBlockObservedAt = clock

\* the healing task that took the step, when the step changed where it stands
Stepped(h) == healers'[h] # healers[h]

\* C26: a healing task that placed the host on standby completes only on a step that
\* is a lifecycle lookup (which then reported InService); it is never the call of
\* ExitStandby that completes it.
C26_CompletesOnlyWhenInService ==
    [][ \A h \in Healers :
          (healers[h].placedOnStandby /\ healers[h].pc # "release" /\ healers'[h].pc = "release")
              => ev'.call = "Describe" ]_vars

\* C27: the first lifecycle lookup of a healing task leads to EnterStandby exactly when
\* it returned one record in state InService; a record in state Standby sets
\* placedOnStandby without a call; any other result leaves placedOnStandby false.
\* EnterStandby is called by a task that saw InService only, and ExitStandby only by
\* a task whose placedOnStandby is set.
C27_StandbyOnlyFromInService ==
    [][ \A h \in Healers :
          /\ (healers[h].pc = "start" /\ Stepped(h) /\ ev'.call = "Describe") =>
                /\ (healers'[h].pc = "enter") <=> (ev'.lifecycle = "InService")
                /\ ev'.lifecycle = "InService" => ~healers'[h].placedOnStandby
                /\ ev'.lifecycle = "Standby" =>
                      (healers'[h].pc = "poll" /\ healers'[h].placedOnStandby)
                /\ ev'.lifecycle \notin {"InService", "Standby"} =>
                      (healers'[h].pc \in {"poll", "release"} /\ ~healers'[h].placedOnStandby)
          /\ (Stepped(h) /\ ev'.call = "EnterStandby") => healers[h].pc = "enter"
          /\ (healers[h].pc = "enter" /\ Stepped(h)) => ev'.call = "EnterStandby"
          /\ (Stepped(h) /\ ev'.call = "ExitStandby") => healers[h].placedOnStandby
          /\ (~healers[h].placedOnStandby /\ healers'[h].placedOnStandby) =>
                \/ ev'.call = "EnterStandby"
                \/ ev'.call = "Describe" /\ ev'.lifecycle = "Standby" ]_vars

\* a task that found the host in Standby calls ExitStandby without having called
\* EnterStandby
C27_Witness ==
    /\ ev.op = "heal" /\ ev.call = "ExitStandby"
    /\ enterStandbyAttempts = 0

\* C24: a tick whose call of RestartBlockchainService returns an error keeps
\* lastRestartedByAutohealingAt, keeps the downtime start the offline rule worked with
\* and the time of the last new block the frozen rule worked with; and the rule calls
\* RestartBlockchainService again on the next sample of the same kind.
C24_RestartErrorKeepsState ==
    [][ /\ (ev'.restart # "none" /\ ~ev'.restartOk) =>
              /\ lastRestartedByAutohealingAt' = lastRestartedByAutohealingAt
              /\ currentDowntimeStartedAt' =
                     IF ev'.op = "offline" /\ currentDowntimeStartedAt = NoTime
                     THEN lastProbe'.SampledAt ELSE currentDowntimeStartedAt
              /\ lastNewBlockObservedAt' =
                     IF lastProbe'.newBlock THEN lastProbe'.EndedAt ELSE lastNewBlockObservedAt
        /\ (ev.restart = "R1" /\ ~ev.restartOk /\ ev'.op = "offline") => ev'.restart = "R1"
        /\ (ev.restart = "R2" /\ ~ev.restartOk /\ ev'.op = "online" /\ ~lastProbe'.newBlock) =>
              ev'.restart = "R2" ]_vars

\* the frozen rule's call fails on a node that was restarted before
C24_Witness ==
    /\ ev.restart = "R2" /\ ~ev.restartOk
    /\ lastProbe.restartedBefore
    /\ lastNewBlockObservedAt < lastProbe.SampledAt

\* C25: the handling of one tick calls RestartBlockchainService at most once, also
\* when the call fails: the offline rule only after a failed sample, the frozen rule
\* only after a successful one.
C25_OneRestartCallPerTick ==
    /\ ev.restartCalls <= 1
    /\ (ev.restartCalls = 1) <=> (ev.restart # "none")
    /\ ev.restart = "R1" => ev.op = "offline"
    /\ ev.restart = "R2" => ev.op = "online"

\* the offline rule's only call fails on a node restarted before, with the downtime
\* above the threshold
C25_Witness ==
    /\ ev.op = "offline" /\ ev.restartCalls = 1 /\ ~ev.restartOk
    /\ lastProbe.restartedBefore
    /\ lastProbe.SampledAt - currentDowntimeStartedAt > config.DowntimeRestartThresholdSeconds

\* C28: after the handling of every successful sample lastSynchedBlockNumber is the
\* height of that sample, and lastNewBlockObservedAt has moved on that sample exactly
\* when its height was above the previous lastSynchedBlockNumber (a restart by the
\* frozen rule, which resets that time, set aside).
C28_HeightFollowsEverySample ==
    [][ ev'.op = "online" =>
            /\ lastSynchedBlockNumber' = lastProbe'.height
            /\ ~ev'.restartOk =>
                  ((lastNewBlockObservedAt' # lastNewBlockObservedAt) <=> lastProbe'.newBlock) ]_vars

\* C40: on a tick whose sample shows a height above lastSynchedBlockNumber the frozen
\* rule does not call RestartBlockchainService: the new block has moved the frozen
\* clock to the end of the status check before the rule measures the frozen duration.
C40_NoFrozenRestartOnNewBlock ==
    [][ (ev'.op = "online" /\ lastProbe'.height > lastSynchedBlockNumber) =>
            /\ ev'.restart # "R2"
            /\ ev'.restartCalls = 0
            /\ lastNewBlockObservedAt' = lastProbe'.EndedAt ]_vars

\* with autoheal on, past the initial buffer and after an earlier restart, a sample
\* with a new block arrives once the node had been frozen for longer than the
\* threshold; the service is not restarted
C40_Witness ==
    /\ config.Autoheal
    /\ ev.op = "online" /\ ev.restart = "none"
    /\ lastProbe.newBlock /\ lastProbe.restartedBefore
    /\ lastProbe.EndedAt >= earliestAllowedRestartTime
    /\ lastNewBlockObservedAt = lastProbe.EndedAt
    /\ lastProbe.EndedAt - lastRestartedByAutohealingAt > config.NoNewBlocksRestartThresholdSeconds
    /\ lastProbe.EndedAt - lastRestartedByAutohealingAt >= config.AutohealRestartDelaySeconds

\* ------------------------------------------------------------------ channels and dispatcher: properties

\* when the check behind a stored sample started
SampledAtOf(sample) ==
    IF HasUptime(sample) THEN sample.UptimeMetric[1].SampledAt
    ELSE sample.SyncStatusMetrics[1].SampledAt

\* C17: for each key the dispatcher receives (and so stores) the samples in the order
\* the watcher produced them: SampledAt never decreases along the sequence of samples
\* handed to AddSample, whatever the order in which the sending goroutines run.
C17_DeliveredInOrderProduced ==
    \A nodeId \in StoreKeys :
        \A i, j \in 1..Len(addedSamples[nodeId]) :
            i < j => SampledAtOf(addedSamples[nodeId][i]) <= SampledAtOf(addedSamples[nodeId][j])

\* the loop has a send of its own pending that only a receive of the dispatcher lets through
WatcherBlocked == directSends > 0 /\ logMessages >= channelCapacity

\* C18: handling a tick never waits for the dispatcher: the watcher loop is never
\* stopped at a send that can only go through once the dispatcher has received.
C18_TickNeverWaitsForConsumer == ~WatcherBlocked

\* the dispatcher has handled a sample up to the fan-out
FannedOut ==
    \/ lastCalc.op = "hashrate"
    \/ lastCalc.op = "uptime" /\ lastCalc.err = ""

\* the metrics built from the sample handled last
MetricsOfLastSample == IF lastCalc.op = "hashrate" THEN SyncMetricNames ELSE UptimeMetricNames

\* C20: for every sample the dispatcher handles, Collect is called exactly once for each
\* (collector, metric) pair of the sample, in the order of the loops, whichever of the
\* calls return an error; and the uptime handler never skips the fan-out of a sample
\* it has just stored.
C20_CollectOncePerSinkAndRecord ==
    /\ lastCalc.op \in {"hashrate", "uptime"} => FannedOut
    /\ FannedOut => collectCalls.calls = CollectPairs(metricCollectors, MetricsOfLastSample)

\* every Collect call of a sync sample failed, on two collectors, and all ten were made
C20_Witness ==
    /\ lastCalc.op = "hashrate"
    /\ Len(metricCollectors) = 2
    /\ collectCalls.errors = Len(collectCalls.calls)
    /\ Len(collectCalls.calls) = 2 * Len(SyncMetricNames)

\* C19: once the context is cancelled, every loop returns in the end: the watcher loop
\* and the loop of the dispatcher.
C19_EveryLoopReturnsAfterCancel == cancelled ~> (watcherReturned /\ DispatcherReturned)

\* C23: a call of AddSample for a key changes the sequence stored under that key only:
\* every other key keeps its sequence, and no other key appears in or leaves the map.
C23_AddSampleTouchesOneKey ==
    [][\A nodeId \in StoreKeys :
          addedSamples'[nodeId] = addedSamples[nodeId] =>
              /\ Stored(nodeId)' = Stored(nodeId)
              /\ (nodeId \in DOMAIN PerNodeMetrics)' = (nodeId \in DOMAIN PerNodeMetrics)]_vars

\* AddSample has pruned and appended under one key while the other key held samples
C23_Witness ==
    /\ MetricSamplesToKeepPerNode = 1
    /\ Len(addedSamples["url"]) >= 2
    /\ Len(Stored("url")) = 1
    /\ Len(Stored("node")) = 1

\* ------------------------------------------------------------------ collectors: properties

\* C21: a Collect call of the file collector on a metric whose CollectToFile flag is
\* false writes nothing to the current file and returns no error.
C21_FileSkipsMetricsNotForFile ==
    (lastCollect.collector = "file" /\ ~lastCollect.CollectToFile) =>
        (lastCollect.written = 0 /\ lastCollect.err = "")

\* C22: a Collect call of the CloudWatch collector invokes PutMetricData exactly once
\* when CollectToCloudwatch is set and returns what the call returned; it makes no
\* call and returns nil when the flag is not set.
C22_CloudwatchCallsProviderOnce ==
    lastCollect.collector = "cloudwatch" =>
        IF lastCollect.CollectToCloudwatch
        THEN lastCollect.apiCalls = 1 /\ lastCollect.err = lastCollect.providerErr
        ELSE lastCollect.apiCalls = 0 /\ lastCollect.err = ""

\* a metric for the file only was handed to the CloudWatch collector while the
\* provider was failing, after a metric that was sent and rejected
C22_Witness ==
    /\ lastCollect.collector = "cloudwatch"
    /\ ~lastCollect.CollectToCloudwatch
    /\ lastCollect.providerErr # ""
    /\ Len(putMetricData) = 1

\* the metrics handed to Collect for the sample handled last
CollectedNames == {collectCalls.calls[i][2] : i \in 1..Len(collectCalls.calls)}

\* C29: when the hash-rate calculation for a sync sample returns an error, no
\* BlocksHashedPerSecond metric is handed to any collector for that sample, while the
\* other four metrics of the sample are.
C29_NoHashRateRecordOnError ==
    (lastCalc.op = "hashrate" /\ lastCalc.err # "") =>
        /\ "BlocksHashedPerSecond" \notin CollectedNames
        /\ {"SyncStatus", "LatestBlockHeight", "SecondsBehindLive",
            "StatusCheckLatencyMilliseconds"} \subseteq CollectedNames

\* the sample stored last under a key
LastStored(nodeId) == Stored(nodeId)[Len(Stored(nodeId))]

\* C30: the synthetic metric the dispatcher computes for a sample is computed on a
\* store that already holds the sample: the sample is the last one stored under its
\* key, the result is the one the calculation gives on that store, it is never the
\* key-not-found error, and the uptime calculation returns no error at all.
C30_SampleStoredBeforeCalculation ==
    lastCalc.op \in {"hashrate", "uptime"} =>
        /\ lastCalc.key \in DOMAIN PerNodeMetrics
        /\ SampledAtOf(LastStored(lastCalc.key)) = sampleClock
        /\ lastCalc.err # ErrNodeMetricsNotFound
        /\ lastCalc.op = "uptime" =>
              /\ lastCalc.err = ""
              /\ lastCalc.value = UptimeOf(PerNodeMetrics, "url").value
        /\ lastCalc.op = "hashrate" =>
              /\ lastCalc.err = HashRatePerSecondOf(PerNodeMetrics, "node").err
              /\ lastCalc.value = HashRatePerSecondOf(PerNodeMetrics, "node").value

\* the first uptime sample of an endpoint has been handled, and its uptime computed
C30_Witness ==
    /\ lastCalc.op = "uptime" /\ lastCalc.err = ""
    /\ Len(addedSamples["url"]) = 1
    /\ addedSamples["node"] = << >>

\* C36: when the construction of the healer failed at load time, every healing task
\* of rule R3 only logs: it makes no Describe, EnterStandby or ExitStandby call and
\* no status poll, it returns at once, and the flag is cleared as it returns; rules
\* R1 and R2 restart the service as they do otherwise.
C36_FailedInitMakesHealingNoOp ==
    [][ initFailed =>
          /\ ev'.op = "heal" => ev'.call = "none"
          /\ \A h \in Healers :
                /\ healers'[h].pc \in {"idle", "start", "release"}
                /\ (healers[h].pc = "start" /\ healers'[h] # healers[h]) =>
                      healers'[h].pc = "release"
                /\ (healers[h].pc = "release" /\ healers'[h].pc = "idle") =>
                      ~outOfSyncAutohealingInProgress'
          /\ ev'.op = "offline" => ((ev'.restart = "R1") <=> (config.Autoheal /\ ev'.due))
          /\ ev'.restart = "R2" => (config.Autoheal /\ ev'.due)
      ]_vars

\* with a healer whose construction failed, rule R1 restarted the service, and a
\* healing task started later by rule R3 has returned and cleared the flag
C36_Witness ==
    /\ initFailed
    /\ lastRestartedByAutohealingAt # NoTime
    /\ ev.op = "heal" /\ ev.call = "none" /\ ev.flagBefore
    /\ ~outOfSyncAutohealingInProgress
    /\ ActiveHealers = {}

\* C37: however a healing task ends (failed healer construction, failed lifecycle
\* lookup, a number of records other than one, failed EnterStandby, or completion),
\* its goroutine ends through the deferred function only, which clears the flag; the
\* flag is never set with no task running, and a task that has ended is followed by
\* a cleared flag, so that a later out-of-sync sample can start a new task.
C37_EveryEndOfTaskClearsFlag ==
    /\ [][ \A h \in Healers :
              (healers[h].pc # "idle" /\ healers'[h].pc = "idle") =>
                  (healers[h].pc = "release" /\ ~outOfSyncAutohealingInProgress') ]_vars
    /\ [](outOfSyncAutohealingInProgress => ActiveHealers # {})
    /\ \A h \in Healers :
          (healers[h].pc = "release") ~> (~outOfSyncAutohealingInProgress /\ healers[h].pc = "idle")

\* a task whose EnterStandby call failed has ended; its deferred function is due
C37_Witness ==
    \E h \in Healers :
        /\ healers[h].pc = "release"
        /\ ~healers[h].placedOnStandby
        /\ enterStandbyAttempts = 1
        /\ ev.call = "EnterStandby"
        /\ outOfSyncAutohealingInProgress

\* C38: within one healing task, ExitStandby is called only after a status poll of
\* the task succeeded and showed the node within AutohealSyncToLiveToleranceSeconds
\* of live; an EnterStandby call comes before every status poll and every
\* ExitStandby call of the task; a task whose EnterStandby call failed makes no
\* status poll and no ExitStandby call.
C38_CallsOfTaskInOrder ==
    [][ \A h \in Healers :
          (ev'.op = "heal" /\ healers[h].pc # "idle") =>
              /\ ev'.call = "ExitStandby" => taskCalls[h].caughtUp
              /\ ev'.call = "EnterStandby" => (~taskCalls[h].polled /\ ~taskCalls[h].exited)
              /\ ev'.call \in {"Status", "ExitStandby"} => ~taskCalls[h].enterFailed
      ]_vars

\* a task has called EnterStandby, has polled until the node had caught up and has
\* just had its ExitStandby call succeed
C38_Witness ==
    \E h \in Healers :
        /\ healers[h].pc = "release"
        /\ ev.call = "ExitStandby"
        /\ taskCalls[h] = [ entered |-> TRUE, enterFailed |-> FALSE, polled |-> TRUE,
                            caughtUp |-> TRUE, exited |-> TRUE ]

\* ------------------------------------------------------------------ the flag of rule R3: properties

\* the watcher loop is about to read the flag while a healing task is about to clear it
FlagAccessedByTwo ==
    /\ watcherAt.pc = "flag"
    /\ \E h \in Healers : healers[h].pc = "release"

\* C35: outOfSyncAutohealingInProgress is guarded: the read and set of the watcher
\* loop and the clear of a healing task are never due at the same time with nothing
\* to order them, and the flag changes only when rule R3 starts a healing task or
\* when a healing task completes.
C35_FlagGuarded ==
    [][ /\ ~FlagAccessedByTwo
        /\ outOfSyncAutohealingInProgress' # outOfSyncAutohealingInProgress =>
              \/ ev'.op = "online" /\ ev'.spawned
              \/ /\ ev'.op = "heal"
                 /\ \E h \in Healers : healers[h].pc = "release" /\ healers'[h].pc = "idle"
      ]_vars

\* ------------------------------------------------------------------ file collector: properties

\* the callers between the return of Lock and the deferred Unlock
InsideCollect == {c \in Callers : collecting[c].pc # "idle"}

\* C33: Collect calls made at the same time exclude each other over the whole
\* check, rotate and write sequence: at most one call is past Lock, it is the holder
\* of the lock, only the holder changes the current file or its opening time, and
\* the lock is free again when no call is in progress, whatever the calls returned.
C33_CollectCallsExcludeEachOther ==
    [][ /\ Cardinality(InsideCollect) <= 1
        /\ \A c \in InsideCollect : fileLock = c
        /\ InsideCollect = {} => fileLock = NoCaller
        /\ (currentFile' # currentFile \/ currentFileOpenedAt' # currentFileOpenedAt) =>
              /\ fileLock # NoCaller
              /\ collecting'[fileLock] # collecting[fileLock]
              /\ \A c \in Callers \ {fileLock} : collecting'[c] = collecting[c] ]_vars

\* a caller holds the lock and has rotated the file but not written yet, while
\* another caller is outside Collect
C33_Witness ==
    /\ \E c \in Callers : collecting[c].pc = "checked" /\ fileLock = c
    /\ currentFileOpenedAt > 0
    /\ currentFile = << >>
    /\ \E c \in Callers : collecting[c].pc = "idle"

\* C34: a Collect call that finds the current file due for rotation closes it and
\* opens a new one, which is current (opened at the time of the call) when the
\* record is written; the collector never holds more than one open file.
C34_RotationKeepsOneOpenFile ==
    /\ openFileHandles <= 1
    /\ (lastCollect.collector = "file" /\ lastCollect.rotated) =>
          /\ currentFileOpenedAt = clock
          /\ Len(currentFile) = lastCollect.written

\* ------------------------------------------------------------------ status check: properties

\* floor of a number of milliseconds in seconds
FloorSeconds(milliseconds) ==
    IF milliseconds >= 0 THEN milliseconds \div 1000
    ELSE 0 - ((999 - milliseconds) \div 1000)

\* C31: every sample a status check builds has SecondsBehindLive equal to
\* max(0, floor(now - LatestBlockTime in seconds)), so it is never negative, also when
\* the node reports a block time later than the local clock; and its
\* SampleLatencyMilliseconds is never negative.
C31_SecondsBehindLiveClamped ==
    lastSample.SampledAt # NoTime =>
        /\ lastSample.SecondsBehindLive =
               (IF FloorSeconds(lastSample.now - lastSample.LatestBlockTime) > 0
                THEN FloorSeconds(lastSample.now - lastSample.LatestBlockTime) ELSE 0)
        /\ lastSample.SecondsBehindLive >= 0
        /\ lastSample.SampleLatencyMilliseconds >= 0

\* ------------------------------------------------------------------ cancellation: properties

\* the sends of samples on the two metric channels that went through so far
SamplesSent ==
    LET sent(e) ==
            CASE e.pc = "done" -> IF e.kind = "online" THEN 2 ELSE 1
              [] e.pc = "uptime" /\ e.kind = "online" -> 1
              [] OTHER -> 0
        count[i \in 0..Len(emitters)] == IF i = 0 THEN 0 ELSE count[i - 1] + sent(emitters[i])
    IN  count[Len(emitters)]

\* C32: once WatchSyncStatus has returned after the cancellation of its context, no
\* sync status sample and no uptime sample is sent on the metric channels any more.
C32_NoSampleSentAfterReturn ==
    [][watcherReturned => SamplesSent' = SamplesSent]_vars

====
